---- MODULE Spec2Model ----
(***************************************************************************)
(* Model of the demo parser's message decoders: the game-event list and    *)
(* game-event messages (src/src/demo/message/gameevent.rs) and the         *)
(* packet-entities message (src/src/demo/message/packetentities.rs), and   *)
(* of the user tables of the Analyser (src/src/demo/parser/analyser.rs).   *)
(*                                                                         *)
(* A stream is a sequence of bits with a cursor.  Every decoder is         *)
(* translated as an operator that reads fields from the stream at their    *)
(* wire width, little-endian; the actions run a decoder on the parent      *)
(* stream of the scenario chosen by Init.                                  *)
(***************************************************************************)
EXTENDS Integers, Sequences, FiniteSets, TLC

VARIABLES
    scenario,            \* which message sequence the parent stream holds
    stream,              \* bits of the parent stream
    pos,                 \* cursor of the parent stream (bits consumed)
    msg_start,           \* cursor at which the current message starts
    skip_pos,            \* cursor of the clone handed to parse_skip
    pc,                  \* position of the outer parse loop
    event_definitions,   \* ParserState.event_definitions
    entity_classes,      \* ParserState.entity_classes
    instance_baselines,  \* ParserState.instance_baselines
    result,              \* value returned by the last read / parse
    skip_result,         \* value returned by parse_skip
    input,               \* the fields the parent stream was encoded from
    frame,               \* local variables of a parse that runs step by step
    users,               \* Analyser.users
    user_states,         \* Analyser.user_states
    chat,                \* Analyser.chat
    user_spawns,         \* Analyser.user_spawns
    deaths,              \* Analyser.deaths
    rounds,              \* Analyser.rounds
    start_tick           \* Analyser.start_tick

vars == <<scenario, stream, pos, msg_start, skip_pos, pc, event_definitions,
          entity_classes, instance_baselines, result, skip_result, input, frame,
          users, user_states, chat, user_spawns, deaths, rounds, start_tick>>

----------------------------------------------------------------------------
(* Bit streams                                                             *)

\* `let name = value;`: the value, computed once, under a name for the rest of
\* the expression.
With(value, rest(_)) == CHOOSE r \in { rest(x) : x \in {value} } : TRUE

\* The little-endian value of a bit sequence (first bit is least significant).
RECURSIVE LEValue(_)
LEValue(b) == IF b = <<>> THEN 0 ELSE Head(b) + 2 * LEValue(Tail(b))

\* A view over a bit buffer with a read cursor.
MkStream(bits) == [bits |-> bits, pos |-> 0]

BitsLeft(s) == Len(s.bits) - s.pos

Ok(v, s) == [ok |-> TRUE, val |-> v, s |-> s, err |-> "none"]

Err(e, s) == [ok |-> FALSE, val |-> 0, s |-> s, err |-> e]

\* read_sized(n): n bits, little-endian, as an unsigned integer (n <= 31).
ReadSized(s, n) ==
    IF BitsLeft(s) < n THEN Err("NotEnoughData", s)
    ELSE Ok(LEValue(SubSeq(s.bits, s.pos + 1, s.pos + n)),
            [s EXCEPT !.pos = @ + n])

\* A u32 is kept as its top bit and its low 31 bits, so that the full 32-bit
\* range is represented.
U32(n) == [top |-> 0, low |-> n]

\* read::<u32>() / read_sized::<u32>(32).
ReadU32(s) ==
    IF BitsLeft(s) < 32 THEN Err("NotEnoughData", s)
    ELSE Ok([top |-> s.bits[s.pos + 32],
             low |-> LEValue(SubSeq(s.bits, s.pos + 1, s.pos + 31))],
            [s EXCEPT !.pos = @ + 32])

\* read::<bool>(): one bit.
ReadBool(s) ==
    IF BitsLeft(s) < 1 THEN Err("NotEnoughData", s)
    ELSE Ok(s.bits[s.pos + 1] = 1, [s EXCEPT !.pos = @ + 1])

\* read_bits(n): carve a sub-stream of exactly n bits, advance the cursor by n.
ReadBits(s, n) ==
    IF BitsLeft(s) < n THEN Err("NotEnoughData", s)
    ELSE Ok(MkStream(SubSeq(s.bits, s.pos + 1, s.pos + n)),
            [s EXCEPT !.pos = @ + n])

\* skip_bits(n): advance the cursor by n bits.
SkipBits(s, n) ==
    IF BitsLeft(s) < n THEN Err("NotEnoughData", s)
    ELSE Ok(0, [s EXCEPT !.pos = @ + n])

\* read::<String>(): bytes up to a 0x00 byte, which is consumed.
RECURSIVE ReadStringFrom(_, _)
ReadStringFrom(s, acc) ==
    With(ReadSized(s, 8), LAMBDA b :
    IF ~b.ok THEN Err("NotEnoughData", s)
    ELSE IF b.val = 0 THEN Ok(acc, b.s)
    ELSE ReadStringFrom(b.s, Append(acc, b.val)))

ReadString(s) == ReadStringFrom(s, <<>>)

\* read::<Option<u32>>(): a 1-bit tag, then the value when the tag is 1.
ReadOptionU32(s) ==
    With(ReadBool(s), LAMBDA tag :
    IF ~tag.ok THEN Err("NotEnoughData", s)
    ELSE IF ~tag.val THEN Ok([some |-> FALSE, v |-> U32(0)], tag.s)
    ELSE With(ReadU32(tag.s), LAMBDA v :
         IF ~v.ok THEN v
         ELSE Ok([some |-> TRUE, v |-> v.val], v.s)))

----------------------------------------------------------------------------
(* Encoding of the inputs: the bits a producer writes for a field.         *)

RECURSIVE Bits(_, _)
Bits(v, n) == IF n = 0 THEN <<>> ELSE <<v % 2>> \o Bits(v \div 2, n - 1)

BitsU32(u) == Bits(u.low, 31) \o <<u.top>>

RECURSIVE BitsString(_)
BitsString(str) ==
    IF str = <<>> THEN Bits(0, 8) ELSE Bits(Head(str), 8) \o BitsString(Tail(str))

\* All sequences over S of length at most n.
RECURSIVE SeqsUpTo(_, _)
SeqsUpTo(S, n) ==
    IF n = 0 THEN {<<>>}
    ELSE With(SeqsUpTo(S, n - 1), LAMBDA shorter :
         shorter \cup {Append(q, x) : q \in {r \in shorter : Len(r) = n - 1}, x \in S})

----------------------------------------------------------------------------
(* Game events: src/src/demo/message/gameevent.rs                          *)

\* GameEventValueType, by its 3-bit discriminant on the wire.
KindOfTag(d) ==
    CASE d = 0 -> "None"
      [] d = 1 -> "String"
      [] d = 2 -> "Float"
      [] d = 3 -> "Long"
      [] d = 4 -> "Short"
      [] d = 5 -> "Byte"
      [] d = 6 -> "Boolean"
      [] d = 7 -> "Local"

TagOfKind(k) == CHOOSE d \in 0..7 : KindOfTag(d) = k

ReadKind(s) ==
    With(ReadSized(s, 3), LAMBDA d :
    IF ~d.ok THEN d ELSE Ok(KindOfTag(d.val), d.s))

\* Names of the event types the typed GameEvent sum knows, with the number of
\* values its typed form takes; every other name is the Unknown type.
KnownEventTypes == (<<100>> :> 1)

from_type_name(name) ==
    IF name \in DOMAIN KnownEventTypes
    THEN [known |-> TRUE, name |-> name]
    ELSE [known |-> FALSE, name |-> <<>>]

\* read_event_value that reads a Short from 8 bits.
read_event_value_short8(s, entry) ==
    With(entry.kind, LAMBDA k :
    IF k = "String" THEN
        With(ReadString(s), LAMBDA r :
        IF ~r.ok THEN r ELSE Ok([kind |-> "String", v |-> r.val], r.s))
    ELSE IF k = "Float" THEN
        With(ReadU32(s), LAMBDA r :
        IF ~r.ok THEN r ELSE Ok([kind |-> "Float", v |-> r.val], r.s))
    ELSE IF k = "Long" THEN
        With(ReadU32(s), LAMBDA r :
        IF ~r.ok THEN r ELSE Ok([kind |-> "Long", v |-> r.val], r.s))
    ELSE IF k = "Short" THEN
        With(ReadSized(s, 8), LAMBDA r :
        IF ~r.ok THEN r ELSE Ok([kind |-> "Short", v |-> r.val], r.s))
    ELSE IF k = "Byte" THEN
        With(ReadSized(s, 8), LAMBDA r :
        IF ~r.ok THEN r ELSE Ok([kind |-> "Byte", v |-> r.val], r.s))
    ELSE IF k = "Boolean" THEN
        With(ReadBool(s), LAMBDA r :
        IF ~r.ok THEN r ELSE Ok([kind |-> "Boolean", v |-> r.val], r.s))
    ELSE IF k = "Local" THEN Ok([kind |-> "Local", v |-> 0], s)
    ELSE Err("NoneValue", s))

\* read_event_value: one value of the entry's kind.
read_event_value(s, entry) ==
    With(entry.kind, LAMBDA k :
    IF k = "String" THEN
        With(ReadString(s), LAMBDA r :
        IF ~r.ok THEN r ELSE Ok([kind |-> "String", v |-> r.val], r.s))
    ELSE IF k = "Float" THEN
        With(ReadU32(s), LAMBDA r :
        IF ~r.ok THEN r ELSE Ok([kind |-> "Float", v |-> r.val], r.s))
    ELSE IF k = "Long" THEN
        With(ReadU32(s), LAMBDA r :
        IF ~r.ok THEN r ELSE Ok([kind |-> "Long", v |-> r.val], r.s))
    ELSE IF k = "Short" THEN
        With(ReadSized(s, 16), LAMBDA r :
        IF ~r.ok THEN r ELSE Ok([kind |-> "Short", v |-> r.val], r.s))
    ELSE IF k = "Byte" THEN
        With(ReadSized(s, 8), LAMBDA r :
        IF ~r.ok THEN r ELSE Ok([kind |-> "Byte", v |-> r.val], r.s))
    ELSE IF k = "Boolean" THEN
        With(ReadBool(s), LAMBDA r :
        IF ~r.ok THEN r ELSE Ok([kind |-> "Boolean", v |-> r.val], r.s))
    ELSE IF k = "Local" THEN Ok([kind |-> "Local", v |-> 0], s)
    ELSE Err("NoneValue", s))

\* The loop over definition.entries of GameEventMessage::parse.
RECURSIVE ReadEventValues(_, _, _)
ReadEventValues(s, entries, values) ==
    IF entries = <<>> THEN Ok(values, s)
    ELSE With(read_event_value(s, Head(entries)), LAMBDA r :
         IF ~r.ok THEN r
         ELSE ReadEventValues(r.s, Tail(entries), Append(values, r.val)))

\* GameEvent::from_raw_event: the typed form of a raw event.
from_raw_event(raw) ==
    IF ~raw.event_type.known THEN [ok |-> TRUE, err |-> "none", event |-> raw]
    ELSE IF Len(raw.values) < KnownEventTypes[raw.event_type.name]
         THEN [ok |-> FALSE, err |-> "MissingEntry", event |-> raw]
         ELSE [ok |-> TRUE, err |-> "none", event |-> raw]

\* The definition GameEventMessage::parse looks up for a type id:
\* state.event_definitions.get(usize::from(event_type)).
LookupDefinition(defs, event_type) ==
    IF event_type < Len(defs) THEN <<defs[event_type + 1]>> ELSE <<>>

\* What a message parser hands back: the outcome, the parent stream and the
\* carved sub-stream as the parser left them.
ParseFail(tag, e, s, data, carved) ==
    [tag |-> tag, ok |-> FALSE, err |-> e, s |-> s, data |-> data,
     carved |-> carved, val |-> <<>>]

ParseOk(tag, v, s, data) ==
    [tag |-> tag, ok |-> TRUE, err |-> "none", s |-> s, data |-> data,
     carved |-> TRUE, val |-> v]

NoStream == MkStream(<<>>)

\* What the outer loop keeps of a parser's return: the value or the error, and
\* how far the carved sub-stream was read.
Outcome(r) ==
    [tag |-> r.tag, ok |-> r.ok, err |-> r.err, val |-> r.val, carved |-> r.carved,
     consumed |-> r.data.pos, length |-> Len(r.data.bits)]

\* GameEventMessage::parse without the carve: the type id and the values are
\* read from the parent stream itself, so nothing stops a read at the end of
\* the message.
GameEventMessage_parse_nocarve(s, defs) ==
    With(ReadSized(s, 11), LAMBDA length :
    IF ~length.ok THEN ParseFail("GameEvent", length.err, s, NoStream, FALSE) ELSE
    With(IF BitsLeft(length.s) < length.val THEN Len(s.bits)
               ELSE length.s.pos + length.val, LAMBDA end :
        With(SubSeq(s.bits, length.s.pos + 1, end), LAMBDA body :
        LET read(r) == [bits |-> body, pos |-> r.pos - length.s.pos] IN
        With(ReadSized(length.s, 9), LAMBDA event_type :
    IF ~event_type.ok
    THEN ParseFail("GameEvent", event_type.err, length.s, read(length.s), TRUE) ELSE
    With(LookupDefinition(defs, event_type.val), LAMBDA found :
    IF found = <<>>
    THEN ParseFail("GameEvent", "UnknownType", event_type.s, read(event_type.s), TRUE)
    ELSE
    With(found[1], LAMBDA definition :
        With(ReadEventValues(event_type.s, definition.entries, <<>>), LAMBDA values :
    IF ~values.ok
    THEN ParseFail("GameEvent", values.err, values.s, read(values.s), TRUE) ELSE
    With([event_type |-> definition.event_type, values |-> values.val], LAMBDA raw_event :
        With(from_raw_event(raw_event), LAMBDA event :
    IF ~event.ok
    THEN ParseFail("GameEvent", event.err, values.s, read(values.s), TRUE)
    ELSE ParseOk("GameEvent", event.event, values.s, read(values.s)))))))))))

\* GameEventMessage::parse.
GameEventMessage_parse(s, defs) ==
    With(ReadSized(s, 11), LAMBDA length :
    IF ~length.ok THEN ParseFail("GameEvent", length.err, s, NoStream, FALSE) ELSE
    With(ReadBits(length.s, length.val), LAMBDA carve :
    IF ~carve.ok THEN ParseFail("GameEvent", carve.err, length.s, NoStream, FALSE) ELSE
    With(ReadSized(carve.val, 9), LAMBDA event_type :
    IF ~event_type.ok
    THEN ParseFail("GameEvent", event_type.err, carve.s, carve.val, TRUE) ELSE
    With(LookupDefinition(defs, event_type.val), LAMBDA found :
    IF found = <<>>
    THEN ParseFail("GameEvent", "UnknownType", carve.s, event_type.s, TRUE) ELSE
    With(found[1], LAMBDA definition :
        With(ReadEventValues(event_type.s, definition.entries, <<>>), LAMBDA values :
    IF ~values.ok
    THEN ParseFail("GameEvent", values.err, carve.s, values.s, TRUE) ELSE
    With([event_type |-> definition.event_type, values |-> values.val], LAMBDA raw_event :
        With(from_raw_event(raw_event), LAMBDA event :
    IF ~event.ok
    THEN ParseFail("GameEvent", event.err, carve.s, values.s, TRUE)
    ELSE ParseOk("GameEvent", event.event, carve.s, values.s)))))))))

\* GameEventMessage::parse_skip.
GameEventMessage_parse_skip(s) ==
    With(ReadSized(s, 11), LAMBDA length :
    IF ~length.ok THEN ParseFail("Skip", length.err, s, NoStream, FALSE) ELSE
    With(SkipBits(length.s, length.val), LAMBDA skip :
    IF ~skip.ok THEN ParseFail("Skip", skip.err, length.s, NoStream, FALSE)
    ELSE ParseOk("Skip", <<>>, skip.s, NoStream)))

\* An entry loop that pushes the entry of kind None it stops at.
RECURSIVE ReadEntries_push(_, _)
ReadEntries_push(s, entries) ==
    With(ReadKind(s), LAMBDA entry_type :
    IF ~entry_type.ok THEN entry_type
    ELSE IF entry_type.val = "None"
    THEN Ok(Append(entries, [name |-> <<>>, kind |-> "None"]), entry_type.s)
    ELSE With(ReadString(entry_type.s), LAMBDA entry_name :
         IF ~entry_name.ok THEN entry_name
         ELSE ReadEntries_push(entry_name.s,
                               Append(entries, [name |-> entry_name.val,
                                                kind |-> entry_type.val]))))

\* The entry loop of GameEventDefinition::read.
RECURSIVE ReadEntries(_, _)
ReadEntries(s, entries) ==
    With(ReadKind(s), LAMBDA entry_type :
    IF ~entry_type.ok THEN entry_type
    ELSE IF entry_type.val = "None" THEN Ok(entries, entry_type.s)
    ELSE With(ReadString(entry_type.s), LAMBDA entry_name :
         IF ~entry_name.ok THEN entry_name
         ELSE ReadEntries(entry_name.s,
                          Append(entries, [name |-> entry_name.val,
                                           kind |-> entry_type.val]))))

\* GameEventDefinition::read.
GameEventDefinition_read(s) ==
    With(ReadSized(s, 9), LAMBDA event_type :
    IF ~event_type.ok THEN event_type ELSE
    With(ReadString(event_type.s), LAMBDA name :
    IF ~name.ok THEN name ELSE
    With(ReadEntries(name.s, <<>>), LAMBDA entries :
    IF ~entries.ok THEN entries
    ELSE Ok([id |-> event_type.val,
             event_type |-> from_type_name(name.val),
             name |-> name.val,
             entries |-> entries.val], entries.s))))

\* A definition loop that runs once more than count (`0..=count`).
RECURSIVE ReadDefinitionsInclusive(_, _, _)
ReadDefinitionsInclusive(s, count, list) ==
    With(GameEventDefinition_read(s), LAMBDA d :
    IF ~d.ok THEN d
    ELSE IF count = 0 THEN Ok(Append(list, d.val), d.s)
    ELSE ReadDefinitionsInclusive(d.s, count - 1, Append(list, d.val)))

\* read_sized::<Vec<GameEventDefinition>>(count): count definitions in a row.
RECURSIVE ReadDefinitions(_, _, _)
ReadDefinitions(s, count, list) ==
    IF count = 0 THEN Ok(list, s)
    ELSE With(GameEventDefinition_read(s), LAMBDA d :
         IF ~d.ok THEN d
         ELSE ReadDefinitions(d.s, count - 1, Append(list, d.val)))

\* GameEventListMessage::read.
GameEventListMessage_read(s) ==
    With(ReadSized(s, 9), LAMBDA count :
    IF ~count.ok THEN ParseFail("GameEventList", count.err, s, NoStream, FALSE) ELSE
    With(ReadSized(count.s, 20), LAMBDA length :
    IF ~length.ok
    THEN ParseFail("GameEventList", length.err, count.s, NoStream, FALSE) ELSE
    With(ReadBits(length.s, length.val), LAMBDA carve :
    IF ~carve.ok
    THEN ParseFail("GameEventList", carve.err, length.s, NoStream, FALSE) ELSE
    With(ReadDefinitions(carve.val, count.val, <<>>), LAMBDA event_list :
    IF ~event_list.ok
    THEN ParseFail("GameEventList", event_list.err, carve.s, event_list.s, TRUE)
    ELSE ParseOk("GameEventList", event_list.val, carve.s, event_list.s)))))

----------------------------------------------------------------------------
(* Packet entities: src/src/demo/message/packetentities.rs                 *)

\* `u as i32` of a u32.
AsI32(u) == IF u.top = 1 THEN (u.low - 1073741824) - 1073741824 ELSE u.low

\* `i as u32` of an i32.
AsU32(i) ==
    IF i < 0 THEN [top |-> 1, low |-> (i + 1073741824) + 1073741824]
    ELSE [top |-> 0, low |-> i]

\* i32 addition as the release build computes it (two's complement wrap; a
\* build with overflow checks panics where this wraps).
AddI32(a, b) ==
    IF a >= 0 /\ b >= 0 /\ a > 2147483647 - b
    THEN (a - 1073741824 - 1073741824) + b
    ELSE IF a < 0 /\ b < 0 /\ a < (-2147483647 - 1) - b
    THEN (a + 1073741824 + 1073741824) + b
    ELSE a + b

\* PVS, by its 2-bit discriminant.
PVSOfTag(d) ==
    CASE d = 0 -> "Preserve"
      [] d = 1 -> "Leave"
      [] d = 2 -> "Enter"
      [] d = 3 -> "Delete"

TagOfPVS(p) == CHOOSE d \in 0..3 : PVSOfTag(d) = p

\* The schema: two server classes and the send table of each.
Definition(table, name, bit_count) ==
    [owner_table |-> table, name |-> name, bit_count |-> bit_count]

send_tables ==
    [T0 |-> [name |-> "T0",
             flattened_props |-> << Definition("T0", "a", 3), Definition("T0", "b", 3),
                                    Definition("T0", "c", 3), Definition("T0", "d", 3) >>],
     T1 |-> [name |-> "T1",
             flattened_props |-> << Definition("T1", "a", 3), Definition("T1", "b", 3) >>]]

server_classes ==
    << [id |-> 1, name |-> "C0", data_table |-> "T0"],
       [id |-> 3, name |-> "C1", data_table |-> "T1"] >>

SendProp(definition, value) == [definition |-> definition, value |-> value]

\* The decoded static baseline of each server class that has one, by class id.
static_baselines ==
    (0 :> << SendProp(send_tables.T0.flattened_props[1], 1) >>) @@
    (1 :> << SendProp(send_tables.T0.flattened_props[2], 2) >>)

\* ParserState::get_static_baseline: the decoded static baseline of a class.
get_static_baseline(class_id) ==
    IF class_id \in DOMAIN static_baselines
    THEN [ok |-> TRUE, val |-> static_baselines[class_id], err |-> "none"]
    ELSE [ok |-> FALSE, val |-> <<>>, err |-> "MissingStaticBaseline"]

\* log_base2 of the class count: the class index takes log_base2(n) + 1 bits.
RECURSIVE log_base2(_)
log_base2(n) == IF n <= 1 THEN 0 ELSE 1 + log_base2((n + 1) \div 2)

\* SendPropValue::parse, for the unsigned integer props of the schema above.
SendPropValue_parse(s, definition) == ReadSized(s, definition.bit_count)

\* PacketEntity::get_prop_by_definition: position of the first prop with an
\* equal definition, 0 when there is none.
get_prop_by_definition(props, definition) ==
    IF \E i \in 1..Len(props) : props[i].definition = definition
    THEN CHOOSE i \in 1..Len(props) :
            /\ props[i].definition = definition
            /\ \A j \in 1..(i - 1) : props[j].definition # definition
    ELSE 0

\* apply_update with the lookup dropped: every incoming prop is pushed.
RECURSIVE apply_update_push(_, _)
apply_update_push(entity_props, props) ==
    IF props = <<>> THEN entity_props
    ELSE apply_update_push(Append(entity_props, Head(props)), Tail(props))

\* apply_update that keeps the value of a prop the entity already has.
RECURSIVE apply_update_keep(_, _)
apply_update_keep(entity_props, props) ==
    IF props = <<>> THEN entity_props
    ELSE With(Head(props), LAMBDA prop :
             With(get_prop_by_definition(entity_props, prop.definition), LAMBDA i :
         apply_update_keep(
            IF i # 0 THEN entity_props ELSE Append(entity_props, prop),
            Tail(props))))

\* PacketEntity::apply_update.
RECURSIVE apply_update(_, _)
apply_update(entity_props, props) ==
    IF props = <<>> THEN entity_props
    ELSE With(Head(props), LAMBDA prop :
             With(get_prop_by_definition(entity_props, prop.definition), LAMBDA i :
         apply_update(
            IF i # 0 THEN [entity_props EXCEPT ![i].value = prop.value]
            ELSE Append(entity_props, prop),
            Tail(props))))

\* read_bit_var with a 16-bit third width.
read_bit_var_wide(s) ==
    With(ReadSized(s, 2), LAMBDA ty :
    IF ~ty.ok THEN ty ELSE
    With(CASE ty.val = 0 -> 4
                  [] ty.val = 1 -> 8
                  [] ty.val = 2 -> 16
                  [] ty.val = 3 -> 32, LAMBDA bits :
    IF bits = 32 THEN ReadU32(ty.s)
    ELSE With(ReadSized(ty.s, bits), LAMBDA r :
         IF ~r.ok THEN r ELSE Ok(U32(r.val), r.s))))

\* read_bit_var::<u32>.
read_bit_var(s) ==
    With(ReadSized(s, 2), LAMBDA ty :
    IF ~ty.ok THEN ty ELSE
    With(CASE ty.val = 0 -> 4
                  [] ty.val = 1 -> 8
                  [] ty.val = 2 -> 12
                  [] ty.val = 3 -> 32, LAMBDA bits :
    IF bits = 32 THEN ReadU32(ty.s)
    ELSE With(ReadSized(ty.s, bits), LAMBDA r :
         IF ~r.ok THEN r ELSE Ok(U32(r.val), r.s))))

\* The running index after a diff: index += (diff as i32) + 1.
NextIndex(index, diff) == AddI32(index, AddI32(AsI32(diff), 1))

\* get_send_table.
get_send_table(table) ==
    IF table \in DOMAIN send_tables
    THEN [ok |-> TRUE, val |-> send_tables[table], err |-> "none"]
    ELSE [ok |-> FALSE, val |-> <<>>, err |-> "UnknownSendTable"]

\* flattened_props.get(index as usize).
GetDefinition(send_table, index) ==
    IF index >= 0 /\ index < Len(send_table.flattened_props)
    THEN <<send_table.flattened_props[index + 1]>>
    ELSE <<>>

\* PacketEntitiesMessage::read_update; indices records the running index of
\* each iteration.
RECURSIVE read_update_from(_, _, _, _, _)
read_update_from(s, send_table, index, props, indices) ==
    With(ReadBool(s), LAMBDA more :
    IF ~more.ok THEN Err(more.err, more.s)
    ELSE IF ~more.val THEN Ok([props |-> props, indices |-> indices], more.s)
    ELSE
    With(read_bit_var(more.s), LAMBDA diff :
    IF ~diff.ok THEN Err(diff.err, diff.s) ELSE
    With(NextIndex(index, diff.val), LAMBDA next :
        With(GetDefinition(send_table, next), LAMBDA found :
    IF found = <<>>
    THEN [Err("PropIndexOutOfBounds", diff.s)
             EXCEPT !.val = [index |-> next,
                             prop_count |-> Len(send_table.flattened_props)]] ELSE
    With(SendPropValue_parse(diff.s, found[1]), LAMBDA value :
    IF ~value.ok THEN Err(value.err, value.s)
    ELSE read_update_from(value.s, send_table, next,
                          Append(props, SendProp(found[1], value.val)),
                          Append(indices, next)))))))

read_update(s, send_table) == read_update_from(s, send_table, -1, <<>>, <<>>)

PacketEntity(server_class, entity_index, props, in_pvs, pvs, serial) ==
    [server_class |-> server_class, entity_index |-> entity_index, props |-> props,
     in_pvs |-> in_pvs, pvs |-> pvs, serial_number |-> serial]

\* get_entity_for_update that makes up an entity of the first class for an
\* unknown id.
get_entity_for_update_default(classes, entity_index, pvs) ==
    [ok |-> TRUE, err |-> "none",
     val |-> PacketEntity(IF entity_index \in DOMAIN classes
                          THEN classes[entity_index] ELSE server_classes[1],
                          entity_index, <<>>, FALSE, pvs, 0)]

\* get_entity_for_update.
get_entity_for_update(classes, entity_index, pvs) ==
    IF entity_index \in DOMAIN classes
    THEN [ok |-> TRUE, err |-> "none",
          val |-> PacketEntity(classes[entity_index], entity_index, <<>>, FALSE, pvs, 0)]
    ELSE [ok |-> FALSE, err |-> "UnknownEntity", val |-> entity_index]

\* PacketEntitiesMessage::read_enter.
read_enter(s, entity_index, baselines, baseline_index) ==
    With(log_base2(Len(server_classes)) + 1, LAMBDA bits :
        With(ReadSized(s, bits), LAMBDA class_index :
    IF ~class_index.ok THEN class_index ELSE
    IF class_index.val >= Len(server_classes)
    THEN Err("UnknownServerClass", class_index.s) ELSE
    With(server_classes[class_index.val + 1], LAMBDA server_class :
        With(ReadSized(class_index.s, 10), LAMBDA serial :
    IF ~serial.ok THEN serial ELSE
    With(get_send_table(server_class.data_table), LAMBDA send_table :
    IF ~send_table.ok THEN Err(send_table.err, serial.s) ELSE
    With(baselines[baseline_index + 1], LAMBDA slot :
        With(IF entity_index \in DOMAIN slot
                 THEN [ok |-> TRUE, val |-> slot[entity_index], err |-> "none"]
                 ELSE IF server_class.id \in DOMAIN static_baselines
                      THEN get_static_baseline(class_index.val)
                      ELSE [ok |-> TRUE, val |-> <<>>, err |-> "none"], LAMBDA props :
    IF ~props.ok THEN Err(props.err, serial.s)
    ELSE Ok(PacketEntity(server_class, entity_index, props.val, TRUE, "Enter",
                         serial.val), serial.s))))))))

\* The entry reader with a Leave or Delete entry that fails for an entity the
\* state does not know.
ReadEntity_strict(data, entity_index, classes, baselines, base_line) ==
    With(ReadSized(data, 2), LAMBDA pvs :
    IF ~pvs.ok THEN pvs ELSE
    IF PVSOfTag(pvs.val) = "Enter" THEN
        With(read_enter(pvs.s, entity_index, baselines, base_line), LAMBDA entity :
        IF ~entity.ok THEN entity ELSE
        With(get_send_table(entity.val.server_class.data_table), LAMBDA send_table :
        IF ~send_table.ok THEN Err(send_table.err, entity.s) ELSE
        With(read_update(entity.s, send_table.val), LAMBDA updated_props :
        IF ~updated_props.ok THEN updated_props
        ELSE Ok([pushed |-> << [entity.val EXCEPT
                                  !.props = apply_update(@, updated_props.val.props)] >>,
                 prop_indices |-> updated_props.val.indices],
                updated_props.s))))
    ELSE IF PVSOfTag(pvs.val) = "Preserve" THEN
        With(get_entity_for_update(classes, entity_index, "Preserve"), LAMBDA entity :
        IF ~entity.ok THEN [Err(entity.err, pvs.s) EXCEPT !.val = entity.val] ELSE
        With(get_send_table(entity.val.server_class.data_table), LAMBDA send_table :
        IF ~send_table.ok THEN Err(send_table.err, pvs.s) ELSE
        With(read_update(pvs.s, send_table.val), LAMBDA updated_props :
        IF ~updated_props.ok THEN updated_props
        ELSE Ok([pushed |-> << [entity.val EXCEPT !.props = updated_props.val.props] >>,
                 prop_indices |-> updated_props.val.indices],
                updated_props.s))))
    ELSE
        With(get_entity_for_update(classes, entity_index, PVSOfTag(pvs.val)), LAMBDA entity :
        IF ~entity.ok THEN [Err(entity.err, pvs.s) EXCEPT !.val = entity.val]
        ELSE Ok([pushed |-> <<entity.val>>, prop_indices |-> <<>>], pvs.s)))

\* One pass of the entity loop of PacketEntitiesMessage::parse: the entity it
\* pushes (none for a Leave or Delete of an unknown entity) and the prop
\* indices read_update went through.
ReadEntity(data, entity_index, classes, baselines, base_line) ==
    With(ReadSized(data, 2), LAMBDA pvs :
    IF ~pvs.ok THEN pvs ELSE
    IF PVSOfTag(pvs.val) = "Enter" THEN
        With(read_enter(pvs.s, entity_index, baselines, base_line), LAMBDA entity :
        IF ~entity.ok THEN entity ELSE
        With(get_send_table(entity.val.server_class.data_table), LAMBDA send_table :
        IF ~send_table.ok THEN Err(send_table.err, entity.s) ELSE
        With(read_update(entity.s, send_table.val), LAMBDA updated_props :
        IF ~updated_props.ok THEN updated_props
        ELSE Ok([pushed |-> << [entity.val EXCEPT
                                  !.props = apply_update(@, updated_props.val.props)] >>,
                 prop_indices |-> updated_props.val.indices],
                updated_props.s))))
    ELSE IF PVSOfTag(pvs.val) = "Preserve" THEN
        With(get_entity_for_update(classes, entity_index, "Preserve"), LAMBDA entity :
        IF ~entity.ok THEN [Err(entity.err, pvs.s) EXCEPT !.val = entity.val] ELSE
        With(get_send_table(entity.val.server_class.data_table), LAMBDA send_table :
        IF ~send_table.ok THEN Err(send_table.err, pvs.s) ELSE
        With(read_update(pvs.s, send_table.val), LAMBDA updated_props :
        IF ~updated_props.ok THEN updated_props
        ELSE Ok([pushed |-> << [entity.val EXCEPT !.props = updated_props.val.props] >>,
                 prop_indices |-> updated_props.val.indices],
                updated_props.s))))
    ELSE IF entity_index \in DOMAIN classes THEN
        With(get_entity_for_update(classes, entity_index, PVSOfTag(pvs.val)), LAMBDA entity :
        Ok([pushed |-> <<entity.val>>, prop_indices |-> <<>>], pvs.s))
    ELSE Ok([pushed |-> <<>>, prop_indices |-> <<>>], pvs.s))

\* The entity loop: `for _ in 0..updated_entries`.  entity_indices records
\* last_index after each pass, prop_indices the indices of each read_update.
RECURSIVE ReadEntities(_, _, _, _, _, _, _)
ReadEntities(data, remaining, last_index, acc, classes, baselines, base_line) ==
    IF remaining = 0 THEN Ok(acc, data) ELSE
    With(read_bit_var(data), LAMBDA diff :
    IF ~diff.ok THEN Err(diff.err, diff.s) ELSE
    With(NextIndex(last_index, diff.val), LAMBDA next :
        With(AsU32(next), LAMBDA entity_index :
        With(ReadEntity(diff.s, entity_index, classes, baselines, base_line), LAMBDA one :
    IF ~one.ok THEN one
    ELSE ReadEntities(one.s, remaining - 1, next,
                      [entities |-> acc.entities \o one.val.pushed,
                       entity_indices |-> Append(acc.entity_indices, next),
                       prop_indices |-> Append(acc.prop_indices, one.val.prop_indices)],
                      classes, baselines, base_line)))))

\* The removed-entities trailer: `while data.read()? { push(read_sized(11)) }`.
RECURSIVE ReadRemoved(_, _)
ReadRemoved(data, removed_entities) ==
    With(ReadBool(data), LAMBDA more :
    IF ~more.ok THEN Err(more.err, more.s)
    ELSE IF ~more.val THEN Ok(removed_entities, more.s)
    ELSE With(ReadSized(more.s, 11), LAMBDA id :
         IF ~id.ok THEN Err(id.err, id.s)
         ELSE ReadRemoved(id.s, Append(removed_entities, U32(id.val)))))

\* The trailer read whether or not the message is a delta.
ReadTrailerAlways(data, delta) == ReadRemoved(data, <<>>)

\* The trailer of PacketEntitiesMessage::parse: read only `if delta.is_some()`.
ReadTrailer(data, delta) ==
    IF delta.some THEN ReadRemoved(data, <<>>) ELSE Ok(<<>>, data)

\* The header of a PacketEntities message, as parse and parse_skip read it.
ReadEntitiesHeader(s) ==
    With(ReadSized(s, 11), LAMBDA max_entries :
    IF ~max_entries.ok THEN max_entries ELSE
    With(ReadOptionU32(max_entries.s), LAMBDA delta :
    IF ~delta.ok THEN delta ELSE
    With(ReadSized(delta.s, 1), LAMBDA base_line :
    IF ~base_line.ok THEN base_line ELSE
    With(ReadSized(base_line.s, 11), LAMBDA updated_entries :
    IF ~updated_entries.ok THEN updated_entries ELSE
    With(ReadSized(updated_entries.s, 20), LAMBDA length :
    IF ~length.ok THEN length ELSE
    With(ReadBool(length.s), LAMBDA updated_base_line :
    IF ~updated_base_line.ok THEN updated_base_line
    ELSE Ok([max_entries |-> max_entries.val, delta |-> delta.val,
             base_line |-> base_line.val, updated_entries |-> updated_entries.val,
             length |-> length.val, updated_base_line |-> updated_base_line.val],
            updated_base_line.s)))))))

\* PacketEntitiesMessage::parse.
PacketEntitiesMessage_parse(s, classes, baselines) ==
    With(ReadEntitiesHeader(s), LAMBDA header :
    IF ~header.ok
    THEN ParseFail("PacketEntities", header.err, header.s, NoStream, FALSE) ELSE
    With(header.val, LAMBDA h :
        With(ReadBits(header.s, h.length), LAMBDA carve :
    IF ~carve.ok
    THEN ParseFail("PacketEntities", carve.err, header.s, NoStream, FALSE) ELSE
    With(ReadEntities(carve.val, h.updated_entries, -1,
                             [entities |-> <<>>, entity_indices |-> <<>>,
                              prop_indices |-> <<>>],
                             classes, baselines, h.base_line), LAMBDA loop :
    IF ~loop.ok
    THEN [ParseFail("PacketEntities", loop.err, carve.s, loop.s, TRUE)
             EXCEPT !.val = loop.val] ELSE
    With(ReadTrailer(loop.s, h.delta), LAMBDA removed :
    IF ~removed.ok
    THEN ParseFail("PacketEntities", removed.err, carve.s, removed.s, TRUE)
    ELSE ParseOk("PacketEntities",
                 [entities |-> loop.val.entities,
                  removed_entities |-> removed.val,
                  max_entries |-> h.max_entries,
                  delta |-> h.delta,
                  base_line |-> h.base_line,
                  updated_base_line |-> h.updated_base_line,
                  entity_indices |-> loop.val.entity_indices,
                  prop_indices |-> loop.val.prop_indices],
                 carve.s, removed.s))))))

\* A parse_skip that leaves out the updated_base_line bit of the header.
PacketEntitiesMessage_parse_skip_short(s) ==
    With(ReadEntitiesHeader(s), LAMBDA header :
    IF ~header.ok THEN ParseFail("Skip", header.err, header.s, NoStream, FALSE) ELSE
    With([header.s EXCEPT !.pos = @ - 1], LAMBDA before :
        With(SkipBits(before, header.val.length), LAMBDA skip :
    IF ~skip.ok THEN ParseFail("Skip", skip.err, before, NoStream, FALSE)
    ELSE ParseOk("Skip", <<>>, skip.s, NoStream))))

\* PacketEntitiesMessage::parse_skip.
PacketEntitiesMessage_parse_skip(s) ==
    With(ReadEntitiesHeader(s), LAMBDA header :
    IF ~header.ok THEN ParseFail("Skip", header.err, header.s, NoStream, FALSE) ELSE
    With(SkipBits(header.s, header.val.length), LAMBDA skip :
    IF ~skip.ok THEN ParseFail("Skip", skip.err, header.s, NoStream, FALSE)
    ELSE ParseOk("Skip", <<>>, skip.s, NoStream)))

----------------------------------------------------------------------------
(* Inputs of the game-event scenario: a GameEventList message followed by  *)
(* a GameEvent message.                                                    *)

MaxDefs == 2

DefIds == {0, 1, 7}

\* Entry kinds of the definitions written to the wire.
EntryLists ==
    { <<>>, <<"Byte">>, <<"Boolean", "Local", "Short">>, <<"String", "Long", "Float">> }

EntryName == <<110>>

DefName(id) == IF id = 1 THEN <<100>> ELSE <<97>>

WireDefs == { [id |-> i, kinds |-> k] : i \in DefIds, k \in EntryLists }

RECURSIVE BitsEntries(_)
BitsEntries(kinds) ==
    IF kinds = <<>> THEN Bits(TagOfKind("None"), 3)
    ELSE Bits(TagOfKind(Head(kinds)), 3) \o BitsString(EntryName)
         \o BitsEntries(Tail(kinds))

BitsDefinition(d) == Bits(d.id, 9) \o BitsString(DefName(d.id)) \o BitsEntries(d.kinds)

RECURSIVE BitsDefinitions(_)
BitsDefinitions(defs) ==
    IF defs = <<>> THEN <<>>
    ELSE BitsDefinition(Head(defs)) \o BitsDefinitions(Tail(defs))

\* How a message sits in the packet's stream: lead bits of an earlier message
\* before it, cut bits missing from its end, tail bits of a later message after.
Frames ==
    { [lead |-> 0, cut |-> 0, tail |-> 0],
      [lead |-> 0, cut |-> 1, tail |-> 0],
      [lead |-> 3, cut |-> 0, tail |-> 9] }

Framed(f, bits) ==
    Bits(5, f.lead) \o SubSeq(bits, 1, Len(bits) - f.cut) \o Bits(21, f.tail)

\* A GameEventList message: count may differ from the number of definitions
\* written, and the payload may carry pad bits after them.
ListInputs ==
    { [type |-> "GameEventList", defs |-> d, count |-> c, pad |-> p, frame |-> f] :
        d \in SeqsUpTo(WireDefs, MaxDefs), c \in 0..(MaxDefs + 1), p \in {0, 1},
        f \in Frames }

ListLength(l) == Len(BitsDefinitions(l.defs)) + l.pad

BitsList(l) ==
    Bits(l.count, 9) \o Bits(ListLength(l), 20) \o BitsDefinitions(l.defs)
    \o Bits(0, l.pad)

\* Payloads of a GameEvent message after its 9-bit type id.
EventPayloads ==
    { <<>>,
      Bits(3, 8),
      <<1>> \o Bits(513, 16),
      BitsString(<<120, 121>>) \o BitsU32([top |-> 1, low |-> 5]) \o BitsU32(U32(9)) }

EventTypeIds == {0, 1, 2, 7}

\* A GameEvent message: the length field counts the type id, the payload and
\* the pad bits.
EventInputs ==
    { [type |-> "GameEvent", type_id |-> t, payload |-> p, pad |-> q, frame |-> f] :
        t \in EventTypeIds, p \in EventPayloads, q \in {0, 1}, f \in Frames }

EventLength(e) == 9 + Len(e.payload) + e.pad

BitsEvent(e) ==
    Bits(EventLength(e), 11) \o Bits(e.type_id, 9) \o e.payload \o Bits(0, e.pad)

----------------------------------------------------------------------------
(* Inputs of the packet-entities scenario: one PacketEntities message.     *)

MaxProps == 2

MaxEntries == 2

MaxRemoved == 2

MaxU32 == [top |-> 1, low |-> 2147483647]

\* A diff in the shortest ubitvar form that holds it.
BitsBitVar(u) ==
    IF u.top = 0 /\ u.low < 16 THEN Bits(0, 2) \o Bits(u.low, 4)
    ELSE IF u.top = 0 /\ u.low < 256 THEN Bits(1, 2) \o Bits(u.low, 8)
    ELSE IF u.top = 0 /\ u.low < 4096 THEN Bits(2, 2) \o Bits(u.low, 12)
    ELSE Bits(3, 2) \o BitsU32(u)

PropDiffs == {U32(0), U32(2), MaxU32}

PropValues == {1, 2}

PropItems == { [diff |-> d, value |-> v] : d \in PropDiffs, v \in PropValues }

Updates == SeqsUpTo(PropItems, MaxProps)

PlainUpdates == { <<>>, << [diff |-> U32(0), value |-> 2] >> }

\* An update list on the wire: each prop behind a 1 bit, a 0 bit at the end.
RECURSIVE BitsUpdate(_)
BitsUpdate(update) ==
    IF update = <<>> THEN <<0>>
    ELSE <<1>> \o BitsBitVar(Head(update).diff) \o Bits(Head(update).value, 3)
         \o BitsUpdate(Tail(update))

EntityDiffs == {U32(0), U32(1), MaxU32}

EntriesOver(updates, class_indices) ==
    { [diff |-> d, pvs |-> "Enter", class_index |-> c, update |-> u] :
        d \in EntityDiffs, c \in class_indices, u \in updates }
    \cup
    { [diff |-> d, pvs |-> "Preserve", class_index |-> 0, update |-> u] :
        d \in EntityDiffs, u \in updates }
    \cup
    { [diff |-> d, pvs |-> p, class_index |-> 0, update |-> <<>>] :
        d \in EntityDiffs, p \in {"Leave", "Delete"} }

BitsEntry(e) ==
    BitsBitVar(e.diff) \o Bits(TagOfPVS(e.pvs), 2)
    \o (IF e.pvs = "Enter"
        THEN Bits(e.class_index, 2) \o Bits(5, 10) \o BitsUpdate(e.update)
        ELSE IF e.pvs = "Preserve" THEN BitsUpdate(e.update)
        ELSE <<>>)

RECURSIVE BitsEntries_(_)
BitsEntries_(entries) ==
    IF entries = <<>> THEN <<>>
    ELSE BitsEntry(Head(entries)) \o BitsEntries_(Tail(entries))

RemovedIds == <<7, 42, 3>>

RemovedLists == { SubSeq(RemovedIds, 1, n) : n \in 0..MaxRemoved }

RECURSIVE BitsRemoved(_)
BitsRemoved(removed) ==
    IF removed = <<>> THEN <<0>>
    ELSE <<1>> \o Bits(Head(removed), 11) \o BitsRemoved(Tail(removed))

NoDelta == [some |-> FALSE, v |-> U32(0)]

Deltas == { NoDelta, [some |-> TRUE, v |-> U32(3)] }

ExactFrame == [lead |-> 0, cut |-> 0, tail |-> 0]

\* Messages that vary the entries: one entry with any update list, or up to
\* MaxEntries entries with plain update lists.
EntryVariety ==
    { [type |-> "PacketEntities", delta |-> d, base_line |-> b,
       updated_base_line |-> FALSE, entries |-> es, removed |-> <<>>,
       pad |-> 0, frame |-> ExactFrame] :
        d \in Deltas, b \in {0, 1},
        es \in { <<e>> : e \in EntriesOver(Updates, {0, 1, 2}) }
               \cup SeqsUpTo(EntriesOver(PlainUpdates, {0, 1}), MaxEntries) }

HeaderEntries ==
    { <<>>,
      << [diff |-> U32(0), pvs |-> "Enter", class_index |-> 0,
          update |-> << [diff |-> U32(3), value |-> 2] >>] >>,
      << [diff |-> U32(0), pvs |-> "Leave", class_index |-> 0, update |-> <<>>],
         [diff |-> U32(1), pvs |-> "Preserve", class_index |-> 0,
          update |-> << [diff |-> U32(0), value |-> 1] >>] >> }

\* Messages that vary the header, the trailer and the framing.
HeaderVariety ==
    { [type |-> "PacketEntities", delta |-> d, base_line |-> b,
       updated_base_line |-> u, entries |-> es, removed |-> r,
       pad |-> p, frame |-> f] :
        d \in Deltas, b \in {0, 1}, u \in BOOLEAN, es \in HeaderEntries,
        r \in RemovedLists, p \in {0, 1}, f \in Frames }

EntityInputs == EntryVariety \cup HeaderVariety

\* The trailer is written for a delta message, and by a producer that lists
\* removed entities without the delta tag.
BitsBody(m) ==
    BitsEntries_(m.entries)
    \o (IF m.delta.some \/ m.removed # <<>> THEN BitsRemoved(m.removed) ELSE <<>>)
    \o Bits(0, m.pad)

BitsEntities(m) ==
    Bits(16, 11)
    \o (IF m.delta.some THEN <<1>> \o BitsU32(m.delta.v) ELSE <<0>>)
    \o Bits(m.base_line, 1)
    \o Bits(Len(m.entries), 11)
    \o Bits(Len(BitsBody(m)), 20)
    \o (IF m.updated_base_line THEN <<1>> ELSE <<0>>)
    \o BitsBody(m)

EntityHeaderBits(m) == 11 + (IF m.delta.some THEN 33 ELSE 1) + 1 + 11 + 20 + 1

----------------------------------------------------------------------------
(* Parser state that the packet-entities decoder reads.                    *)

NoResult == [tag |-> "none"]

NoInput == [type |-> "none"]

NoFrame == [phase |-> "none"]

\* Analyser::new: no users.
NoUsers == <<>>

NoEntityClasses == <<>>

NoBaselines == <<<<>>, <<>>>>

\* The entity state earlier packets left: none, or entities 0 and 2 alive with
\* an instance baseline for entity 0 in slot 0 and for entity 1 in slot 1.
EntityStates ==
    { [classes |-> NoEntityClasses, baselines |-> NoBaselines],
      [classes |-> (U32(0) :> server_classes[1]) @@ (U32(2) :> server_classes[2]),
       baselines |->
          << (U32(0) :> << SendProp(send_tables.T0.flattened_props[1], 5),
                           SendProp(send_tables.T0.flattened_props[2], 6) >>),
             (U32(1) :> << SendProp(send_tables.T0.flattened_props[4], 7) >>) >>] }

----------------------------------------------------------------------------
(* The game-event scenario.                                                *)

InitEvents ==
    /\ scenario = "events"
    /\ pc = "start"
    /\ stream = <<>>
    /\ pos = 0
    /\ msg_start = 0
    /\ skip_pos = 0
    /\ event_definitions = <<>>
    /\ entity_classes = NoEntityClasses
    /\ instance_baselines = NoBaselines
    /\ result = NoResult
    /\ skip_result = NoResult
    /\ frame = NoFrame
    /\ users = NoUsers
    /\ user_states = NoUsers
    /\ chat = <<>>
    /\ user_spawns = <<>>
    /\ deaths = <<>>
    /\ rounds = <<>>
    /\ start_tick = 0
    /\ input = NoInput

\* The outer container hands over the packet that holds the GameEventList.
DeliverGameEventList ==
    /\ scenario = "events"
    /\ pc = "start"
    /\ \E l \in ListInputs :
        /\ input' = l
        /\ stream' = Framed(l.frame, BitsList(l))
        /\ pos' = l.frame.lead
        /\ msg_start' = l.frame.lead
        /\ skip_pos' = l.frame.lead
    /\ pc' = "list"
    /\ result' = NoResult
    /\ skip_result' = NoResult
    /\ UNCHANGED <<chat, user_spawns, deaths, rounds, start_tick,
                   users, user_states, frame, scenario, event_definitions,
                   entity_classes, instance_baselines>>

\* GameEventListMessage::read on the parent stream.
ReadGameEventList ==
    /\ pc = "list"
    /\ \E r \in {GameEventListMessage_read([bits |-> stream, pos |-> pos])} :
        /\ result' = Outcome(r)
        /\ pos' = r.s.pos
        /\ pc' = IF r.ok THEN "install" ELSE "failed"
    /\ UNCHANGED <<chat, user_spawns, deaths, rounds, start_tick,
                   users, user_states, frame, scenario, stream, msg_start,
                   skip_pos, event_definitions, entity_classes,
                   instance_baselines, skip_result, input>>

\* The packet handler installs the list that was read into the parser state.
InstallEventList ==
    /\ pc = "install"
    /\ event_definitions' = result.val
    /\ pc' = "idle"
    /\ UNCHANGED <<chat, user_spawns, deaths, rounds, start_tick,
                   users, user_states, frame, scenario, stream, pos, msg_start,
                   skip_pos, entity_classes, instance_baselines, result,
                   skip_result, input>>

\* The outer container hands over a packet that holds a GameEvent message.
DeliverGameEvent ==
    /\ scenario = "events"
    /\ pc = "idle"
    /\ \E e \in EventInputs :
        /\ input' = e
        /\ stream' = Framed(e.frame, BitsEvent(e))
        /\ pos' = e.frame.lead
        /\ msg_start' = e.frame.lead
        /\ skip_pos' = e.frame.lead
    /\ pc' = "event"
    /\ result' = NoResult
    /\ skip_result' = NoResult
    /\ UNCHANGED <<chat, user_spawns, deaths, rounds, start_tick,
                   users, user_states, frame, scenario, event_definitions,
                   entity_classes, instance_baselines>>

\* GameEventMessage::parse on the parent stream.
ParseGameEvent ==
    /\ pc = "event"
    /\ result = NoResult
    /\ \E r \in {GameEventMessage_parse([bits |-> stream, pos |-> pos],
                                       event_definitions)} :
        /\ result' = Outcome(r)
        /\ pos' = r.s.pos
    /\ UNCHANGED <<chat, user_spawns, deaths, rounds, start_tick,
                   users, user_states, frame, scenario, stream, msg_start,
                   skip_pos, pc, event_definitions, entity_classes,
                   instance_baselines, skip_result, input>>

\* GameEventMessage::parse_skip on a clone of the parent stream.
SkipGameEvent ==
    /\ pc = "event"
    /\ skip_result = NoResult
    /\ \E r \in {GameEventMessage_parse_skip([bits |-> stream, pos |-> skip_pos])} :
        /\ skip_result' = Outcome(r)
        /\ skip_pos' = r.s.pos
    /\ UNCHANGED <<chat, user_spawns, deaths, rounds, start_tick,
                   users, user_states, frame, scenario, stream, pos, msg_start,
                   pc, event_definitions, entity_classes, instance_baselines,
                   result, input>>

\* The packet is done with; the parser state stays.
NextPacket ==
    /\ pc = "event"
    /\ result # NoResult
    /\ skip_result # NoResult
    /\ pc' = "idle"
    /\ stream' = <<>>
    /\ pos' = 0
    /\ msg_start' = 0
    /\ skip_pos' = 0
    /\ result' = NoResult
    /\ skip_result' = NoResult
    /\ input' = NoInput
    /\ UNCHANGED <<chat, user_spawns, deaths, rounds, start_tick,
                   users, user_states, frame, scenario, event_definitions,
                   entity_classes, instance_baselines>>

NextEvents ==
    \/ DeliverGameEventList
    \/ ReadGameEventList
    \/ InstallEventList
    \/ DeliverGameEvent
    \/ ParseGameEvent
    \/ SkipGameEvent
    \/ NextPacket

SpecEvents == InitEvents /\ [][NextEvents]_vars

----------------------------------------------------------------------------
(* The packet-entities scenario.                                           *)

InitEntities ==
    /\ scenario = "entities"
    /\ pc = "idle"
    /\ stream = <<>>
    /\ pos = 0
    /\ msg_start = 0
    /\ skip_pos = 0
    /\ event_definitions = <<>>
    /\ \E st \in EntityStates :
        /\ entity_classes = st.classes
        /\ instance_baselines = st.baselines
    /\ result = NoResult
    /\ skip_result = NoResult
    /\ frame = NoFrame
    /\ users = NoUsers
    /\ user_states = NoUsers
    /\ chat = <<>>
    /\ user_spawns = <<>>
    /\ deaths = <<>>
    /\ rounds = <<>>
    /\ start_tick = 0
    /\ input = NoInput

\* The outer container hands over a packet that holds a PacketEntities message.
DeliverPacketEntities ==
    /\ scenario = "entities"
    /\ pc = "idle"
    /\ \E m \in EntityInputs :
        /\ input' = m
        /\ stream' = Framed(m.frame, BitsEntities(m))
        /\ pos' = m.frame.lead
        /\ msg_start' = m.frame.lead
        /\ skip_pos' = m.frame.lead
    /\ pc' = "entities"
    /\ result' = NoResult
    /\ skip_result' = NoResult
    /\ UNCHANGED <<chat, user_spawns, deaths, rounds, start_tick,
                   users, user_states, frame, scenario, event_definitions,
                   entity_classes, instance_baselines>>

\* The entity classes after the packet handler took in the entities of a
\* message: an entity that entered is recorded with its class.
RECURSIVE InstallClasses(_, _)
InstallClasses(classes, entities) ==
    IF entities = <<>> THEN classes
    ELSE LET e == Head(entities) IN
         InstallClasses(
            IF e.pvs = "Enter"
            THEN [id \in DOMAIN classes \cup {e.entity_index} |->
                    IF id = e.entity_index THEN e.server_class ELSE classes[id]]
            ELSE classes,
            Tail(entities))

\* An instance-baseline slot after the Enter entities of a message were
\* promoted into it.
RECURSIVE PromoteBaseline(_, _)
PromoteBaseline(slot, entities) ==
    IF entities = <<>> THEN slot
    ELSE LET e == Head(entities) IN
         PromoteBaseline(
            IF e.pvs = "Enter"
            THEN [id \in DOMAIN slot \cup {e.entity_index} |->
                    IF id = e.entity_index THEN e.props ELSE slot[id]]
            ELSE slot,
            Tail(entities))

\* A parse that records the entities that enter as it reads them.
StateAfterParseInstalls(classes, baselines, r) ==
    [classes |-> IF r.ok THEN InstallClasses(classes, r.val.entities) ELSE classes,
     baselines |-> baselines]

\* What PacketEntitiesMessage::parse leaves of the entity state it is handed.
StateAfterParse(classes, baselines, r) ==
    [classes |-> classes, baselines |-> baselines]

\* PacketEntitiesMessage::parse on the parent stream.
ParsePacketEntities ==
    /\ pc = "entities"
    /\ result = NoResult
    /\ \E r \in {PacketEntitiesMessage_parse([bits |-> stream, pos |-> pos],
                                            entity_classes, instance_baselines)} :
       \E st \in {StateAfterParse(entity_classes, instance_baselines, r)} :
        /\ result' = Outcome(r)
        /\ pos' = r.s.pos
        /\ entity_classes' = st.classes
        /\ instance_baselines' = st.baselines
    /\ UNCHANGED <<chat, user_spawns, deaths, rounds, start_tick,
                   users, user_states, frame, scenario, stream, msg_start,
                   skip_pos, pc, event_definitions, skip_result, input>>

\* PacketEntitiesMessage::parse_skip on a clone of the parent stream.
SkipPacketEntities ==
    /\ pc = "entities"
    /\ skip_result = NoResult
    /\ \E r \in {PacketEntitiesMessage_parse_skip([bits |-> stream, pos |-> skip_pos])} :
        /\ skip_result' = Outcome(r)
        /\ skip_pos' = r.s.pos
    /\ UNCHANGED <<chat, user_spawns, deaths, rounds, start_tick,
                   users, user_states, frame, scenario, stream, pos, msg_start,
                   pc, event_definitions, entity_classes, instance_baselines,
                   result, input>>

\* The packet handler takes a parsed message into the parser state: entered
\* entities are recorded, removed entities dropped, and with updated_base_line
\* the Enter entities are promoted into the other baseline slot.
HandlePacketEntities ==
    /\ pc = "entities"
    /\ result # NoResult
    /\ result.ok
    /\ LET msg == result.val
           installed == InstallClasses(entity_classes, msg.entities)
           removed == { msg.removed_entities[i] : i \in 1..Len(msg.removed_entities) }
           other == 1 - msg.base_line IN
        /\ entity_classes' = [id \in DOMAIN installed \ removed |-> installed[id]]
        /\ instance_baselines' =
            IF msg.updated_base_line
            THEN [instance_baselines EXCEPT
                    ![other + 1] = PromoteBaseline(@, msg.entities)]
            ELSE instance_baselines
    /\ pc' = "handled"
    /\ UNCHANGED <<chat, user_spawns, deaths, rounds, start_tick,
                   users, user_states, frame, scenario, stream, pos, msg_start,
                   skip_pos, event_definitions, result, skip_result, input>>

NextEntities ==
    \/ DeliverPacketEntities
    \/ ParsePacketEntities
    \/ SkipPacketEntities
    \/ HandlePacketEntities

SpecEntities == InitEntities /\ [][NextEntities]_vars

\* The two message scenarios together.
InitMessages == InitEvents \/ InitEntities

NextMessages == NextEvents \/ NextEntities

SpecMessages == InitMessages /\ [][NextMessages]_vars

----------------------------------------------------------------------------
(* read_bit_var on its own: every selector, in shortest and longer forms   *)

\* The values written behind each 2-bit selector.
BitVarValues(selector) ==
    CASE selector = 0 -> { U32(v) : v \in 0..15 }
      [] selector = 1 -> { U32(0), U32(16), U32(200), U32(255) }
      [] selector = 2 -> { U32(0), U32(256), U32(2730), U32(4095) }
      [] selector = 3 -> { U32(0), U32(4096), U32(2147483647),
                           [top |-> 1, low |-> 0], MaxU32 }

BitVarInputs ==
    { [type |-> "BitVar", selector |-> sel, value |-> v, frame |-> f] :
        sel \in 0..3, v \in UNION { BitVarValues(k) : k \in 0..3 }, f \in Frames }

\* The selector and the value at the width the selector announces.
BitsBitVarAs(selector, u) ==
    Bits(selector, 2) \o
        (CASE selector = 0 -> Bits(u.low, 4)
           [] selector = 1 -> Bits(u.low, 8)
           [] selector = 2 -> Bits(u.low, 12)
           [] selector = 3 -> BitsU32(u))

InitBitVar ==
    /\ scenario = "bitvar"
    /\ pc = "bitvar"
    /\ \E m \in { i \in BitVarInputs : i.value \in BitVarValues(i.selector) } :
        /\ input = m
        /\ stream = Framed(m.frame, BitsBitVarAs(m.selector, m.value))
        /\ pos = m.frame.lead
        /\ msg_start = m.frame.lead
        /\ skip_pos = m.frame.lead
    /\ event_definitions = <<>>
    /\ entity_classes = NoEntityClasses
    /\ instance_baselines = NoBaselines
    /\ result = NoResult
    /\ skip_result = NoResult
    /\ frame = NoFrame
    /\ users = NoUsers
    /\ user_states = NoUsers
    /\ chat = <<>>
    /\ user_spawns = <<>>
    /\ deaths = <<>>
    /\ rounds = <<>>
    /\ start_tick = 0

ReadBitVar ==
    /\ pc = "bitvar"
    /\ result = NoResult
    /\ \E r \in {read_bit_var([bits |-> stream, pos |-> pos])} :
        /\ result' = [tag |-> "BitVar", ok |-> r.ok, val |-> r.val, err |-> r.err]
        /\ pos' = r.s.pos
    /\ UNCHANGED <<chat, user_spawns, deaths, rounds, start_tick,
                   users, user_states, frame, scenario, stream, msg_start,
                   skip_pos, pc, event_definitions, entity_classes,
                   instance_baselines, skip_result, input>>

SpecBitVar == InitBitVar /\ [][ReadBitVar]_vars

----------------------------------------------------------------------------
(* PacketEntitiesMessage::parse step by step: one step per loop iteration  *)

\* The parse has returned with an error.
Failed(f, e, s) == [f EXCEPT !.phase = "failed", !.err = e, !.data = s]

\* The header reads and the carve of PacketEntitiesMessage::parse, up to the
\* first iteration of the entity loop.
EnterParse(s) ==
    With(ReadEntitiesHeader(s), LAMBDA header :
    IF ~header.ok
    THEN [phase |-> "failed", err |-> header.err, carved |-> FALSE, parent |-> s]
    ELSE
    With(ReadBits(header.s, header.val.length), LAMBDA carve :
    IF ~carve.ok
    THEN [phase |-> "failed", err |-> carve.err, carved |-> FALSE, parent |-> header.s]
    ELSE [phase |-> "entities", err |-> "none", carved |-> TRUE, parent |-> carve.s,
          data |-> carve.val,
          updated_entries |-> header.val.updated_entries,
          remaining |-> header.val.updated_entries,
          delta |-> header.val.delta.some,
          base_line |-> header.val.base_line,
          last_index |-> -1, index |-> -1, table |-> "none"]))

\* One pass of `for _ in 0..updated_entries`: the loop ends, or an entry is read
\* up to its update list.
EntityStep(f, classes, baselines) ==
    IF f.remaining = 0
    THEN [f EXCEPT !.phase = IF f.delta THEN "trailer" ELSE "done"] ELSE
    With(read_bit_var(f.data), LAMBDA diff :
    IF ~diff.ok THEN Failed(f, diff.err, diff.s) ELSE
    With(NextIndex(f.last_index, diff.val), LAMBDA next :
        With(ReadSized(diff.s, 2), LAMBDA pvs :
    IF ~pvs.ok THEN Failed(f, pvs.err, pvs.s) ELSE
    IF PVSOfTag(pvs.val) = "Enter" THEN
        With(read_enter(pvs.s, AsU32(next), baselines, f.base_line), LAMBDA entity :
        IF ~entity.ok THEN Failed(f, entity.err, entity.s)
        ELSE [f EXCEPT !.phase = "props", !.data = entity.s, !.last_index = next,
                       !.index = -1,
                       !.table = entity.val.server_class.data_table])
    ELSE IF PVSOfTag(pvs.val) = "Preserve" THEN
        With(get_entity_for_update(classes, AsU32(next), "Preserve"), LAMBDA entity :
        IF ~entity.ok THEN Failed(f, entity.err, pvs.s)
        ELSE [f EXCEPT !.phase = "props", !.data = pvs.s, !.last_index = next,
                       !.index = -1,
                       !.table = entity.val.server_class.data_table])
    ELSE [f EXCEPT !.data = pvs.s, !.last_index = next, !.remaining = @ - 1])))

\* A prop-loop pass that looks at a set continuation bit without taking it.
PropStep_peek(f) ==
    With(ReadBool(f.data), LAMBDA more :
    IF ~more.ok THEN Failed(f, more.err, more.s)
    ELSE IF ~more.val
    THEN [f EXCEPT !.phase = "entities", !.data = more.s, !.remaining = @ - 1]
    ELSE f)

\* One pass of `while stream.read()?` of read_update: the list ends, or one prop
\* is read.
PropStep(f) ==
    With(ReadBool(f.data), LAMBDA more :
    IF ~more.ok THEN Failed(f, more.err, more.s)
    ELSE IF ~more.val
    THEN [f EXCEPT !.phase = "entities", !.data = more.s, !.remaining = @ - 1]
    ELSE
    With(read_bit_var(more.s), LAMBDA diff :
    IF ~diff.ok THEN Failed(f, diff.err, diff.s) ELSE
    With(NextIndex(f.index, diff.val), LAMBDA next :
        With(GetDefinition(send_tables[f.table], next), LAMBDA found :
    IF found = <<>> THEN Failed(f, "PropIndexOutOfBounds", diff.s) ELSE
    With(SendPropValue_parse(diff.s, found[1]), LAMBDA value :
    IF ~value.ok THEN Failed(f, value.err, value.s)
    ELSE [f EXCEPT !.data = value.s, !.index = next])))))

\* One pass of `while data.read()?` of the trailer: the list ends, or one id is
\* read.
TrailerStep(f) ==
    With(ReadBool(f.data), LAMBDA more :
    IF ~more.ok THEN Failed(f, more.err, more.s)
    ELSE IF ~more.val THEN [f EXCEPT !.phase = "done", !.data = more.s]
    ELSE With(ReadSized(more.s, 11), LAMBDA id :
         IF ~id.ok THEN Failed(f, id.err, id.s)
         ELSE [f EXCEPT !.data = id.s]))

\* Messages whose header may announce one entry more than the body holds and a
\* body shorter than was written, the rest of the body then being the start of
\* whatever follows the message.
StepUpdates ==
    { <<>>,
      << [diff |-> U32(0), value |-> 2] >>,
      << [diff |-> U32(0), value |-> 1], [diff |-> U32(2), value |-> 2] >>,
      << [diff |-> MaxU32, value |-> 1] >>,
      << [diff |-> U32(0), value |-> 1], [diff |-> MaxU32, value |-> 2] >> }

StepInputs ==
    { [type |-> "PacketEntities", delta |-> d, base_line |-> b,
       updated_base_line |-> FALSE, entries |-> es, removed |-> r,
       pad |-> 0, frame |-> f, more |-> more, less |-> less] :
        d \in Deltas, b \in {0, 1},
        es \in { <<e>> : e \in EntriesOver(StepUpdates, {0, 1, 2}) } \cup HeaderEntries,
        r \in RemovedLists,
        f \in { ExactFrame, [lead |-> 3, cut |-> 0, tail |-> 9] },
        more \in {0, 1}, less \in {0, 1, 4} }

\* The length the header of such a message declares.
StepLength(m) ==
    IF Len(BitsBody(m)) < m.less THEN 0 ELSE Len(BitsBody(m)) - m.less

BitsSteps(m) ==
    Bits(16, 11)
    \o (IF m.delta.some THEN <<1>> \o BitsU32(m.delta.v) ELSE <<0>>)
    \o Bits(m.base_line, 1)
    \o Bits(Len(m.entries) + m.more, 11)
    \o Bits(StepLength(m), 20)
    \o (IF m.updated_base_line THEN <<1>> ELSE <<0>>)
    \o BitsBody(m)

InitSteps ==
    /\ scenario = "steps"
    /\ pc = "idle"
    /\ stream = <<>>
    /\ pos = 0
    /\ msg_start = 0
    /\ skip_pos = 0
    /\ event_definitions = <<>>
    /\ \E st \in EntityStates :
        /\ entity_classes = st.classes
        /\ instance_baselines = st.baselines
    /\ result = NoResult
    /\ skip_result = NoResult
    /\ input = NoInput
    /\ frame = NoFrame
    /\ users = NoUsers
    /\ user_states = NoUsers
    /\ chat = <<>>
    /\ user_spawns = <<>>
    /\ deaths = <<>>
    /\ rounds = <<>>
    /\ start_tick = 0

DeliverStepsMessage ==
    /\ scenario = "steps"
    /\ pc = "idle"
    /\ \E m \in StepInputs :
        /\ input' = m
        /\ stream' = Framed(m.frame, BitsSteps(m))
        /\ pos' = m.frame.lead
        /\ msg_start' = m.frame.lead
        /\ skip_pos' = m.frame.lead
    /\ pc' = "steps"
    /\ UNCHANGED <<chat, user_spawns, deaths, rounds, start_tick,
                   users, user_states, frame, scenario, event_definitions,
                   entity_classes, instance_baselines, result, skip_result>>

StepsUnchanged ==
    UNCHANGED <<chat, user_spawns, deaths, rounds, start_tick,
                users, user_states, scenario, stream, msg_start, skip_pos, pc,
                event_definitions, entity_classes, instance_baselines, result,
                skip_result, input>>

StartParse ==
    /\ pc = "steps"
    /\ frame = NoFrame
    /\ \E f \in {EnterParse([bits |-> stream, pos |-> pos])} :
        /\ frame' = [g \in DOMAIN f \ {"parent"} |-> f[g]]
        /\ pos' = f.parent.pos
    /\ StepsUnchanged

StepEntity ==
    /\ pc = "steps"
    /\ frame.phase = "entities"
    /\ frame' = EntityStep(frame, entity_classes, instance_baselines)
    /\ UNCHANGED pos
    /\ StepsUnchanged

StepProp ==
    /\ pc = "steps"
    /\ frame.phase = "props"
    /\ frame' = PropStep(frame)
    /\ UNCHANGED pos
    /\ StepsUnchanged

StepTrailer ==
    /\ pc = "steps"
    /\ frame.phase = "trailer"
    /\ frame' = TrailerStep(frame)
    /\ UNCHANGED pos
    /\ StepsUnchanged

NextSteps ==
    \/ DeliverStepsMessage
    \/ StartParse
    \/ StepEntity
    \/ StepProp
    \/ StepTrailer

SpecSteps == InitSteps /\ [][NextSteps]_vars

\* The parse is never left waiting: a step that can be taken is taken.
SpecStepsFair == SpecSteps /\ WF_vars(NextSteps)

----------------------------------------------------------------------------
(* The Analyser's user tables (src/src/demo/parser/analyser.rs)            *)

Names == {"a", "b", "c"}

\* The name parse_user_info falls back to when the 32 name bytes cannot be read.
MalformedName == "Malformed Name"

\* `impl From<u32> for UserId`: the low 8 bits.
UserIdFrom(int) == int % 256

\* Map::insert.
Insert(map, key, value) ==
    [k \in DOMAIN map \cup {key} |-> IF k = key THEN value ELSE map[k]]

\* Userinfo string-table entries as handle_string_entry sees them: the table
\* name, whether text and extra data are there, the byte length of the extra
\* data, and what each read of parse_user_info finds in it.
UserInfoEntries ==
    { [table |-> "userinfo", has_text |-> TRUE, text_parses |-> TRUE,
       has_data |-> TRUE, byte_len |-> 140, name_read |-> TRUE, name |-> n,
       id_read |-> TRUE, raw_id |-> i, steam_read |-> TRUE, steam_id |-> "S"] :
        n \in Names, i \in {1, 2, 3, 257} }
    \cup
    { [table |-> tb, has_text |-> ht, text_parses |-> tp,
       has_data |-> hd, byte_len |-> bl, name_read |-> nr, name |-> "c",
       id_read |-> ir, raw_id |-> 2, steam_read |-> sr, steam_id |-> st] :
        tb \in {"userinfo", "instancebaseline"}, ht \in BOOLEAN, tp \in BOOLEAN,
        hd \in BOOLEAN, bl \in {32, 140}, nr \in BOOLEAN, ir \in BOOLEAN,
        sr \in BOOLEAN, st \in {"", "S"} }

\* `Class::new`; a class is written as its discriminant, which is also its
\* slot in a ClassList.
Class_new(number) == IF number \in 1..9 THEN number ELSE 0

\* `Team::new`.
Team_new(number) ==
    CASE number = 1 -> "Spectator"
      [] number = 2 -> "Red"
      [] number = 3 -> "Blue"
      [] OTHER -> "Other"

\* `ClassList::default()`: ten u8 counters at 0.
ClassList_default == [class \in 0..9 |-> 0]

\* `classes[class] += 1` on a u8 slot that is below u8::MAX.
ClassList_add(classes, class) == [classes EXCEPT ![class] = @ + 1]

\* `classes[class] += 1` on a u8 slot that holds u8::MAX, in a build without
\* overflow checks: the slot wraps.
ClassList_wrap(classes, class) == [classes EXCEPT ![class] = (@ + 1) % 256]

\* Analyser::parse_user_info: the tables after the entry, as a pair.
parse_user_info(us, states, entry) ==
    With(IF entry.name_read THEN entry.name ELSE MalformedName, LAMBDA name :
    IF ~entry.id_read \/ ~entry.steam_read THEN <<us, states>> ELSE
    With(UserIdFrom(entry.raw_id), LAMBDA user_id :
    IF entry.text_parses /\ entry.steam_id # ""
    THEN << Insert(us, user_id,
                   [steam_id |-> entry.steam_id, user_id |-> user_id,
                    name |-> name, entity_id |-> 1]),
            Insert(states, user_id,
                   [classes |-> ClassList_default, name |-> name,
                    user_id |-> user_id, steam_id |-> entry.steam_id,
                    team |-> "Other"]) >>
    ELSE <<us, states>>))

\* Analyser::handle_string_entry on an entry drawn from `entries`.
handle_string_entry(entries) ==
    /\ \E entry \in entries :
        \E after \in { IF /\ entry.table = "userinfo"
                          /\ entry.has_text /\ entry.has_data
                          /\ entry.byte_len > 32
                       THEN parse_user_info(users, user_states, entry)
                       ELSE <<users, user_states>> } :
            /\ users' = after[1]
            /\ user_states' = after[2]
    /\ UNCHANGED <<chat, user_spawns, deaths, rounds, start_tick,
                   scenario, stream, pos, msg_start, skip_pos, pc,
                   event_definitions, entity_classes, instance_baselines,
                   result, skip_result, input, frame>>

\* `values_mut().find(|user| user.name == from)` then `user.name = to`: the
\* tables a rename can leave.  A HashMap hands its values out in an order of
\* its own, so the user found is any one of those named `from`.
Renamed(map, from, to) ==
    IF \A id \in DOMAIN map : map[id].name # from THEN {map}
    ELSE { [map EXCEPT ![id].name = to] :
              id \in { k \in DOMAIN map : map[k].name = from } }

\* The Analyser as a value; `panicked` tells that the handler aborted.
Self ==
    [panicked |-> FALSE, chat |-> chat, users |-> users,
     user_spawns |-> user_spawns, deaths |-> deaths, rounds |-> rounds,
     start_tick |-> start_tick, user_states |-> user_states]

\* Analyser::change_name: the analysers a rename can leave.
change_name(a, from, to) ==
    { [a EXCEPT !.users = u, !.user_states = s] :
        u \in Renamed(a.users, from, to),
        s \in Renamed(a.user_states, from, to) }

\* `ChatMassage::from_message`; `unwrap_or_default` of no sender is "".
ChatMassage_from_message(message, tick) ==
    [kind |-> message.kind,
     from |-> IF message.has_from THEN message.from ELSE "",
     text |-> message.text, tick |-> tick]

\* `Spawn::from_event`.
Spawn_from_event(event, tick) ==
    [user |-> UserIdFrom(event.user_id), class |-> Class_new(event.class),
     team |-> Team_new(event.team), tick |-> tick]

\* `Death::from_event`; the optional assister is a record with `some`.
Death_from_event(event, tick) ==
    [weapon |-> event.weapon, victim |-> UserIdFrom(event.user_id),
     assister |-> IF event.assister < 16 * 1024
                  THEN [some |-> TRUE, id |-> UserIdFrom(event.assister)]
                  ELSE [some |-> FALSE, id |-> 0],
     killer |-> UserIdFrom(event.attacker), tick |-> tick]

\* `Round::from_event`.
Round_from_event(event, tick) ==
    [winner |-> Team_new(event.team), length |-> event.round_time,
     end_tick |-> tick]

\* `const WIN_REASON_TIME_LIMIT: u8 = 6` of handle_event.
WIN_REASON_TIME_LIMIT == 6

\* handle_user_message were it to keep a name change as a chat entry too.
handle_user_message_chat_all(a, message, tick) ==
    IF message.variant = "SayText2"
    THEN IF message.kind = "NameChange" /\ message.has_from
         THEN change_name(
                 [a EXCEPT !.chat =
                     Append(@, ChatMassage_from_message(message, tick))],
                 message.from, message.text)
         ELSE { [a EXCEPT !.chat =
                    Append(@, ChatMassage_from_message(message, tick))] }
    ELSE {a}

\* Analyser::handle_user_message: the analysers the message can leave.
handle_user_message(a, message, tick) ==
    IF message.variant = "SayText2"
    THEN IF message.kind = "NameChange"
         THEN IF message.has_from
              THEN change_name(a, message.from, message.text)
              ELSE {a}
         ELSE { [a EXCEPT !.chat =
                    Append(@, ChatMassage_from_message(message, tick))] }
    ELSE {a}

\* The PlayerSpawn arm of Analyser::handle_event.  The u8 counter of a
\* registered user is incremented in place: at u8::MAX the increment panics
\* in a build with overflow checks and wraps in one without.
handle_spawn(a, spawn) ==
    IF spawn.user \in DOMAIN a.user_states
    THEN IF a.user_states[spawn.user].classes[spawn.class] < 255
         THEN { [a EXCEPT
                    !.user_states[spawn.user].classes =
                        ClassList_add(@, spawn.class),
                    !.user_states[spawn.user].team = spawn.team,
                    !.user_spawns = Append(@, spawn)] }
         ELSE { [a EXCEPT !.panicked = TRUE],
                [a EXCEPT
                    !.user_states[spawn.user].classes =
                        ClassList_wrap(@, spawn.class),
                    !.user_states[spawn.user].team = spawn.team,
                    !.user_spawns = Append(@, spawn)] }
    ELSE { [a EXCEPT !.user_spawns = Append(@, spawn)] }

\* handle_event were it to keep the rounds that ran out of time too.
handle_event_every_round(a, event, tick) ==
    CASE event.variant = "PlayerDeath" ->
            { [a EXCEPT !.deaths = Append(@, Death_from_event(event, tick))] }
      [] event.variant = "PlayerSpawn" ->
            handle_spawn(a, Spawn_from_event(event, tick))
      [] event.variant = "TeamPlayRoundWin" ->
            { [a EXCEPT !.rounds = Append(@, Round_from_event(event, tick))] }
      [] OTHER -> {a}

\* Analyser::handle_event: the analysers the event can leave.
handle_event(a, event, tick) ==
    CASE event.variant = "PlayerDeath" ->
            { [a EXCEPT !.deaths = Append(@, Death_from_event(event, tick))] }
      [] event.variant = "PlayerSpawn" ->
            handle_spawn(a, Spawn_from_event(event, tick))
      [] event.variant = "TeamPlayRoundWin" ->
            IF event.win_reason # WIN_REASON_TIME_LIMIT
            THEN { [a EXCEPT !.rounds =
                       Append(@, Round_from_event(event, tick))] }
            ELSE {a}
      [] OTHER -> {a}

\* handle_message were it to take the tick of every message as start_tick.
handle_message_latest(a, message, tick) ==
    With([a EXCEPT !.start_tick = tick], LAMBDA b :
    CASE message.type = "GameEvent" -> handle_event(b, message.event, tick)
      [] message.type = "UserMessage" ->
            handle_user_message(b, message.message, tick)
      [] OTHER -> {b})

\* Analyser::handle_message: the analysers the message can leave.
handle_message(a, message, tick) ==
    With([a EXCEPT !.start_tick = IF @ = 0 THEN tick ELSE @], LAMBDA b :
    CASE message.type = "GameEvent" -> handle_event(b, message.event, tick)
      [] message.type = "UserMessage" ->
            handle_user_message(b, message.message, tick)
      [] OTHER -> {b})

\* The Analyser takes the value `after`; a panic ends the run.
Becomes(after) ==
    /\ chat' = after.chat
    /\ users' = after.users
    /\ user_spawns' = after.user_spawns
    /\ deaths' = after.deaths
    /\ rounds' = after.rounds
    /\ start_tick' = after.start_tick
    /\ user_states' = after.user_states
    /\ pc' = IF after.panicked THEN "panicked" ELSE pc

\* SayText2 messages: the kind, the sender if any, the text.
SayText2Messages ==
    { [variant |-> "SayText2", kind |-> k, has_from |-> h, from |-> f, text |-> t] :
        k \in {"NameChange", "ChatAll"}, h \in BOOLEAN, f \in Names, t \in Names }

\* Analyser::handle_string_entry on the entries of the user tables scenario.
HandleStringEntry ==
    /\ pc = "analyser"
    /\ handle_string_entry(UserInfoEntries)

\* Analyser::handle_message on a name change of the user tables scenario.
HandleUserMessage ==
    /\ pc = "analyser"
    /\ \E message \in { m \in SayText2Messages : m.kind = "NameChange" } :
        \E after \in handle_message(
                        Self, [type |-> "UserMessage", message |-> message], 1) :
            Becomes(after)
    /\ UNCHANGED <<scenario, stream, pos, msg_start, skip_pos,
                   event_definitions, entity_classes, instance_baselines,
                   result, skip_result, input, frame>>

InitAnalyser ==
    /\ scenario = "analyser"
    /\ pc = "analyser"
    /\ stream = <<>>
    /\ pos = 0
    /\ msg_start = 0
    /\ skip_pos = 0
    /\ event_definitions = <<>>
    /\ entity_classes = NoEntityClasses
    /\ instance_baselines = NoBaselines
    /\ result = NoResult
    /\ skip_result = NoResult
    /\ input = NoInput
    /\ frame = NoFrame
    /\ users = NoUsers
    /\ user_states = NoUsers
    /\ chat = <<>>
    /\ user_spawns = <<>>
    /\ deaths = <<>>
    /\ rounds = <<>>
    /\ start_tick = 0

NextAnalyser ==
    \/ HandleStringEntry
    \/ HandleUserMessage

SpecAnalyser == InitAnalyser /\ [][NextAnalyser]_vars

----------------------------------------------------------------------------
(* The Analyser over a match: one player, messages of every type           *)

\* Messages handled in one run.
MaxMessages == 3

\* Ticks the packets carry.
Ticks == {0, 1, 2}

\* The userinfo entry of the one player, user id 1.
PlayerEntries ==
    { e \in UserInfoEntries :
        /\ e.table = "userinfo" /\ e.has_text /\ e.text_parses /\ e.has_data
        /\ e.byte_len > 32 /\ e.name_read /\ e.name = "a" /\ e.id_read
        /\ e.raw_id = 1 /\ e.steam_read /\ e.steam_id = "S" }

\* Game events: a death, two spawns of user 1 (257 has the low 8 bits of 1;
\* class 12 is no class), a round won and a round out of time, and an event
\* of another kind.
GameEvents ==
    { [variant |-> "PlayerDeath", user_id |-> 2, attacker |-> 257,
       assister |-> 16 * 1024, weapon |-> "w"],
      [variant |-> "PlayerSpawn", user_id |-> 257, class |-> 1, team |-> 2],
      [variant |-> "PlayerSpawn", user_id |-> 1, class |-> 12, team |-> 3],
      [variant |-> "TeamPlayRoundWin", team |-> 2, win_reason |-> 1,
       round_time |-> 90],
      [variant |-> "TeamPlayRoundWin", team |-> 3,
       win_reason |-> WIN_REASON_TIME_LIMIT, round_time |-> 90],
      [variant |-> "PlayerHurt", user_id |-> 1] }

\* User messages: a chat line, a name change with and without a sender, and
\* a message that is no SayText2.
UserMessages ==
    { m \in SayText2Messages :
        \/ m.kind = "ChatAll" /\ m.has_from /\ m.from = "a" /\ m.text = "c"
        \/ m.kind = "NameChange" /\ m.from = "a" /\ m.text = "b" }
    \cup { [variant |-> "Text"] }

\* Messages as handle_message gets them.
Messages ==
    { [type |-> "GameEvent", event |-> e] : e \in GameEvents }
    \cup { [type |-> "UserMessage", message |-> m] : m \in UserMessages }
    \cup { [type |-> "NetTick"] }

\* Analyser::handle_string_entry on the entry of the player.
HandlePlayerEntry ==
    /\ pc \in {"match", "spawns"}
    /\ handle_string_entry(PlayerEntries)

\* Analyser::handle_message on a message drawn from `messages` at a tick drawn
\* from `ticks`; `input` keeps the messages handled so far with their ticks.
handle_message_from(messages, ticks) ==
    /\ \E message \in messages, tick \in ticks :
        /\ \E after \in handle_message(Self, message, tick) : Becomes(after)
        /\ input' = Append(input, [tick |-> tick, message |-> message])
    /\ UNCHANGED <<scenario, stream, pos, msg_start, skip_pos,
                   event_definitions, entity_classes, instance_baselines,
                   result, skip_result, frame>>

\* Analyser::handle_message on a message of the match.
HandleMessage ==
    /\ pc = "match"
    /\ Len(input) < MaxMessages
    /\ handle_message_from(Messages, Ticks)

InitMatch ==
    /\ scenario = "match"
    /\ pc = "match"
    /\ stream = <<>>
    /\ pos = 0
    /\ msg_start = 0
    /\ skip_pos = 0
    /\ event_definitions = <<>>
    /\ entity_classes = NoEntityClasses
    /\ instance_baselines = NoBaselines
    /\ result = NoResult
    /\ skip_result = NoResult
    /\ input = <<>>
    /\ frame = NoFrame
    /\ users = NoUsers
    /\ user_states = NoUsers
    /\ chat = <<>>
    /\ user_spawns = <<>>
    /\ deaths = <<>>
    /\ rounds = <<>>
    /\ start_tick = 0

NextMatch ==
    \/ HandlePlayerEntry
    \/ HandleMessage

SpecMatch == InitMatch /\ [][NextMatch]_vars

----------------------------------------------------------------------------
(* The Analyser over a long match: one player who spawns again and again   *)

\* Spawns handled in one run: as many as a u8 counter cannot hold.
MaxSpawns == 256

\* The spawn of user 1 (257 has the low 8 bits of 1) as a scout, on team red.
SpawnMessages ==
    { [type |-> "GameEvent",
       event |-> [variant |-> "PlayerSpawn", user_id |-> 257, class |-> 1,
                  team |-> 2]] }

\* Analyser::handle_message on a spawn of the player.
HandleSpawn ==
    /\ pc = "spawns"
    /\ Len(input) < MaxSpawns
    /\ handle_message_from(SpawnMessages, {1})

InitSpawns ==
    /\ scenario = "spawns"
    /\ pc = "spawns"
    /\ stream = <<>>
    /\ pos = 0
    /\ msg_start = 0
    /\ skip_pos = 0
    /\ event_definitions = <<>>
    /\ entity_classes = NoEntityClasses
    /\ instance_baselines = NoBaselines
    /\ result = NoResult
    /\ skip_result = NoResult
    /\ input = <<>>
    /\ frame = NoFrame
    /\ users = NoUsers
    /\ user_states = NoUsers
    /\ chat = <<>>
    /\ user_spawns = <<>>
    /\ deaths = <<>>
    /\ rounds = <<>>
    /\ start_tick = 0

NextSpawns ==
    \/ HandlePlayerEntry
    \/ HandleSpawn

SpecSpawns == InitSpawns /\ [][NextSpawns]_vars

----------------------------------------------------------------------------
(* The whole model                                                         *)

Init ==
    \/ InitEvents \/ InitEntities \/ InitBitVar \/ InitSteps
    \/ InitAnalyser \/ InitMatch \/ InitSpawns

Next ==
    \/ NextEvents \/ NextEntities \/ ReadBitVar \/ NextSteps
    \/ NextAnalyser \/ NextMatch \/ NextSpawns

Spec == Init /\ [][Next]_vars

----------------------------------------------------------------------------
(* Properties                                                              *)

ParsedEntities == pc = "entities" /\ result # NoResult /\ result.tag = "PacketEntities"

ParsedEvent == pc = "event" /\ result # NoResult /\ result.tag = "GameEvent"

DistinctDefinitions(props) ==
    \A i, j \in 1..Len(props) : i # j => props[i].definition # props[j].definition

StrictlyIncreasing(q) == \A i \in 1..(Len(q) - 1) : q[i] < q[i + 1]

\* The position of a server class in server_classes, from 0.
ClassIndex(server_class) ==
    CHOOSE k \in 0..(Len(server_classes) - 1) : server_classes[k + 1] = server_class

\* The props an Enter entity starts from: the instance baseline of the slot the
\* message names, else, where a static baseline is stored under the id of its
\* class, the static baseline stored under the position of its class, else
\* none.
StartingProps(entity) ==
    LET slot == instance_baselines[input.base_line + 1] IN
    IF entity.entity_index \in DOMAIN slot THEN slot[entity.entity_index]
    ELSE IF entity.server_class.id \in DOMAIN static_baselines
         THEN static_baselines[ClassIndex(entity.server_class)]
         ELSE <<>>

\* C1: after apply_update no two props of the entity share a definition: every
\* Enter entity of a parsed message, built from a baseline with pairwise
\* distinct definitions and any update list (one that repeats a definition
\* included), has props with pairwise distinct definitions.
C1_PropUniqueness ==
    (ParsedEntities /\ result.ok) =>
        \A k \in 1..Len(result.val.entities) :
            LET e == result.val.entities[k] IN
            (e.pvs = "Enter" /\ DistinctDefinitions(StartingProps(e)))
                => DistinctDefinitions(e.props)

\* C1 happens: an Enter entity that started from a two-prop baseline took an
\* update list that names the same prop index twice.
C1_Witness ==
    /\ ParsedEntities /\ result.ok
    /\ Len(result.val.entities) = 1
    /\ result.val.entities[1].pvs = "Enter"
    /\ Len(StartingProps(result.val.entities[1])) = 2
    /\ Len(result.val.prop_indices[1]) = 2
    /\ result.val.prop_indices[1][1] = result.val.prop_indices[1][2]

\* C2: in the entity-index loop and in the prop-index loop of every parsed
\* message, successive indices strictly increase.
C2_IndexMonotonicity ==
    (ParsedEntities /\ result.ok) =>
        /\ StrictlyIncreasing(result.val.entity_indices)
        /\ \A k \in 1..Len(result.val.prop_indices) :
                StrictlyIncreasing(result.val.prop_indices[k])

\* The length field a message of the current packet carries.
DeclaredLength ==
    IF input.type = "GameEvent" THEN EventLength(input)
    ELSE IF input.type = "GameEventList" THEN ListLength(input)
    ELSE Len(BitsBody(input))

\* C3 as stated: whenever GameEventMessage::parse or PacketEntitiesMessage::parse
\* succeeds, the bits consumed from the carved sub-stream equal the length field.
C3_ConsumedEqualsLength ==
    ((ParsedEvent \/ ParsedEntities) /\ result.ok) => result.consumed = result.length

\* C3, amended: whenever either parse succeeds, the sub-stream carved is exactly
\* the length field long and the bits consumed from it are at most that many.
C3_ConsumedWithinLength ==
    ((ParsedEvent \/ ParsedEntities) /\ result.ok) =>
        /\ result.length = DeclaredLength
        /\ result.consumed <= result.length

\* C3 happens: a game event or a packet-entities message parsed with bits of
\* the carved sub-stream left unread.
C3_Witness ==
    /\ (ParsedEvent \/ ParsedEntities)
    /\ result.ok
    /\ input.pad = 1
    /\ result.consumed < result.length

RECURSIVE AsU32s(_)
AsU32s(ids) == IF ids = <<>> THEN <<>> ELSE <<U32(Head(ids))>> \o AsU32s(Tail(ids))

\* C4: removed_entities of a parsed message is empty when the delta tag bit is 0
\* (the trailer is not read, whatever follows the entries), and when the bit is
\* 1 it is the 11-bit ids of the trailer in wire order up to the first 0 bit.
C4_RemovedTrailer ==
    (ParsedEntities /\ result.ok) =>
        /\ result.val.delta = input.delta
        /\ ~input.delta.some => result.val.removed_entities = <<>>
        /\ input.delta.some => result.val.removed_entities = AsU32s(input.removed)

\* C4 happens: a delta message whose trailer lists 7 and 42.
C4_Witness ==
    /\ ParsedEntities /\ result.ok
    /\ result.val.delta.some
    /\ result.val.removed_entities = <<U32(7), U32(42)>>

\* C5: the step that runs PacketEntitiesMessage::parse leaves entity_classes and
\* both instance-baseline slots as they were, and what it returns of the header
\* is what the message carries.
C5_ParseLeavesState ==
    [][(pc = "entities" /\ result = NoResult /\ result' # NoResult) =>
         /\ entity_classes' = entity_classes
         /\ instance_baselines' = instance_baselines
         /\ result'.ok =>
              /\ result'.val.base_line = input.base_line
              /\ result'.val.updated_base_line = input.updated_base_line]_vars

\* C5 happens: a parsed message with an Enter entity the state does not know,
\* a removed entity and updated_base_line set, none of it taken into the state.
C5_Witness ==
    /\ ParsedEntities /\ result.ok
    /\ result.val.updated_base_line
    /\ result.val.removed_entities # <<>>
    /\ \E k \in 1..Len(result.val.entities) :
        /\ result.val.entities[k].pvs = "Enter"
        /\ result.val.entities[k].entity_index \notin DOMAIN entity_classes
        /\ result.val.entities[k].entity_index
              \notin DOMAIN instance_baselines[2 - input.base_line]

\* The update list of the only entry of the message as read_update decodes it:
\* the definition at each prop index gone through, with the value written.
DecodedUpdate(entity) ==
    LET table == send_tables[entity.server_class.data_table].flattened_props
        indices == result.val.prop_indices[1] IN
    [k \in 1..Len(indices) |->
        SendProp(table[indices[k] + 1], input.entries[1].update[k].value)]

LastValue(update, definition) ==
    LET last == CHOOSE k \in 1..Len(update) :
                    /\ update[k].definition = definition
                    /\ \A l \in (k + 1)..Len(update) : update[l].definition # definition
    IN update[last].value

InUpdate(update, definition) ==
    \E k \in 1..Len(update) : update[k].definition = definition

\* The definitions of the update that the baseline does not have, each once,
\* in the order the update first names them.
RECURSIVE NewDefinitions(_, _, _)
NewDefinitions(update, base, seen) ==
    IF update = <<>> THEN <<>>
    ELSE LET d == Head(update).definition IN
         IF InUpdate(base, d) \/ d \in seen
         THEN NewDefinitions(Tail(update), base, seen)
         ELSE <<d>> \o NewDefinitions(Tail(update), base, seen \cup {d})

\* C6: the props of an Enter entity are its starting baseline overlaid with the
\* update: baseline props keep their positions, a definition the update names
\* carries the update's last value for it, any other keeps the baseline value,
\* definitions new to the entity follow in update order, and the entity is
\* marked in_pvs, pvs = Enter.
C6_EnterOverlay ==
    (/\ ParsedEntities /\ result.ok
     /\ Len(input.entries) = 1
     /\ input.entries[1].pvs = "Enter") =>
        /\ Len(result.val.entities) = 1
        /\ LET e == result.val.entities[1]
               base == StartingProps(e)
               update == DecodedUpdate(e)
               new == NewDefinitions(update, base, {}) IN
            /\ e.in_pvs /\ e.pvs = "Enter"
            /\ Len(e.props) = Len(base) + Len(new)
            /\ \A i \in 1..Len(base) :
                /\ e.props[i].definition = base[i].definition
                /\ e.props[i].value =
                      IF InUpdate(update, base[i].definition)
                      THEN LastValue(update, base[i].definition)
                      ELSE base[i].value
            /\ \A i \in 1..Len(new) :
                /\ e.props[Len(base) + i].definition = new[i]
                /\ e.props[Len(base) + i].value = LastValue(update, new[i])

\* C6 happens: static baseline {#0: 1} with update #3 = 2 gives {#0: 1, #3: 2}.
C6_Witness ==
    /\ ParsedEntities /\ result.ok
    /\ Len(input.entries) = 1
    /\ input.entries[1].pvs = "Enter"
    /\ Len(result.val.entities) = 1
    /\ StartingProps(result.val.entities[1])
          = << SendProp(send_tables.T0.flattened_props[1], 1) >>
    /\ result.val.entities[1].props
          = << SendProp(send_tables.T0.flattened_props[1], 1),
               SendProp(send_tables.T0.flattened_props[4], 2) >>

\* C6 also happens where it matters most: an update that names a baseline
\* definition twice, with two values.
C6_RepeatReached ==
    /\ ParsedEntities /\ result.ok
    /\ Len(input.entries) = 1
    /\ input.entries[1].pvs = "Enter"
    /\ Len(result.val.prop_indices[1]) = 2
    /\ result.val.prop_indices[1][1] = result.val.prop_indices[1][2]
    /\ input.entries[1].update[1].value # input.entries[1].update[2].value
    /\ StartingProps(result.val.entities[1]) # <<>>

\* The definition GameEventMessage::parse decodes the current event against.
UsedDefinition == LookupDefinition(event_definitions, input.type_id)

\* C7: a GameEvent message carrying type id t is decoded against the definition
\* whose id is t, for every installed definition list and every t.
C7_DefinitionById ==
    (ParsedEvent /\ result.ok) =>
        (UsedDefinition # <<>> /\ UsedDefinition[1].id = input.type_id)

\* C7, the scenario of the specification: with definition {id = 7, entries =
\* [Byte]} installed, the event {type_id = 7, byte = 3} decodes to [Byte(3)].
C7_Scenario ==
    (/\ ParsedEvent
     /\ Len(event_definitions) = 1
     /\ event_definitions[1].id = 7
     /\ event_definitions[1].entries = << [name |-> EntryName, kind |-> "Byte"] >>
     /\ input.type_id = 7
     /\ input.payload = Bits(3, 8)
     /\ input.frame.cut = 0) =>
        (result.ok /\ result.val.values = << [kind |-> "Byte", v |-> 3] >>)

\* The definition a wire definition decodes to.
DecodedDefinition(d) ==
    [id |-> d.id,
     event_type |-> from_type_name(DefName(d.id)),
     name |-> DefName(d.id),
     entries |-> [k \in 1..Len(d.kinds) |-> [name |-> EntryName, kind |-> d.kinds[k]]]]

ReadList == pc \in {"install", "failed"} /\ result.tag = "GameEventList"

\* C8: a GameEventListMessage read that succeeds returns exactly count
\* definitions, the first count written, read from the carved sub-stream of
\* length bits, and leaves the parent cursor 9 + 20 + length bits on; with
\* count = 0 and length = 0 that is the empty list and 29 bits; a read whose
\* count exceeds the definitions in the sub-stream fails, and reads no bit
\* after the carve.
C8_ListRead ==
    ReadList =>
        /\ result.ok =>
            /\ Len(result.val) = input.count
            /\ input.count <= Len(input.defs)
            /\ \A k \in 1..input.count : result.val[k] = DecodedDefinition(input.defs[k])
            /\ pos = msg_start + 9 + 20 + ListLength(input)
        /\ result.carved =>
            /\ result.length = ListLength(input)
            /\ result.consumed <= result.length
            /\ pos = msg_start + 9 + 20 + ListLength(input)
        /\ (input.count = 0 /\ ListLength(input) = 0 /\ input.frame.cut = 0) =>
            (result.ok /\ result.val = <<>> /\ pos = msg_start + 29)
        /\ input.count > Len(input.defs) => ~result.ok

\* C8 happens: two definitions read with a pad bit left in the sub-stream and
\* bits of a later message behind it.
C8_Witness ==
    /\ ReadList /\ result.ok
    /\ Len(result.val) = 2
    /\ input.pad = 1
    /\ input.frame.tail > 0

\* C8 also happens on its failing side: count is more than the list holds and
\* bits of a later message follow the carve.
C8_ExhaustedReached ==
    /\ ReadList /\ ~result.ok /\ result.carved
    /\ input.count > Len(input.defs)
    /\ input.frame.tail > 0

\* The bits from the start of the current message to its end.
MessageBits ==
    IF input.type = "GameEvent" THEN 11 + EventLength(input)
    ELSE EntityHeaderBits(input) + Len(BitsBody(input))

\* C9: whenever parse and parse_skip both succeed on a message they leave the
\* cursor at the same position, the end of the message: 11 + length bits from
\* its start for a GameEvent, the header bits + length for PacketEntities.
C9_ParseSkipAgree ==
    (/\ pc \in {"event", "entities"}
     /\ result # NoResult /\ result.ok
     /\ skip_result # NoResult /\ skip_result.ok) =>
        /\ pos = skip_pos
        /\ pos = msg_start + MessageBits

\* C9 happens: both succeeded on a packet-entities delta message whose body
\* decoding left bits unread.
C9_Witness ==
    /\ pc = "entities"
    /\ result # NoResult /\ result.ok
    /\ skip_result # NoResult /\ skip_result.ok
    /\ input.delta.some
    /\ result.consumed < result.length
    /\ msg_start > 0

\* C9 also happens for a game event with unread bits.
C9_EventReached ==
    /\ pc = "event"
    /\ result # NoResult /\ result.ok
    /\ skip_result # NoResult /\ skip_result.ok
    /\ result.consumed < result.length

\* C10: when GameEventMessage::parse fails with a malformed-event error after
\* the carve, the parent cursor is at the end of the message, 11 + length bits
\* from its start, and no event is returned.
C10_ErrorAtBoundary ==
    (ParsedEvent /\ ~result.ok /\ result.err \in {"UnknownType", "NoneValue"}) =>
        /\ result.carved
        /\ pos = msg_start + 11 + EventLength(input)
        /\ result.val = <<>>

\* C10 happens: an unknown type id in a message with a payload and bits of a
\* later message behind it.
C10_Witness ==
    /\ ParsedEvent /\ ~result.ok
    /\ result.err = "UnknownType"
    /\ input.payload # <<>>
    /\ input.frame.tail > 0

\* The event definitions installed under a type id.
DefinitionsWithId(t) ==
    { k \in 1..Len(event_definitions) : event_definitions[k].id = t }

\* C11: a GameEvent message whose type id has no definition among the
\* installed event definitions fails with UnknownType, and nothing of the
\* carved sub-stream after the 9-bit type id is read.
C11_UnknownType ==
    (ParsedEvent /\ result.carved /\ DefinitionsWithId(input.type_id) = {}) =>
        /\ ~result.ok
        /\ result.err = "UnknownType"
        /\ result.consumed = 9

\* C11 where the lookup finds nothing at the position of the type id: the parse
\* fails with UnknownType after the 9 bits of the type id.
C11_NoneAtPosition ==
    (ParsedEvent /\ result.carved /\ input.type_id >= Len(event_definitions)) =>
        /\ ~result.ok
        /\ result.err = "UnknownType"
        /\ result.consumed = 9

\* The width read after each selector value.
BitVarWidth(selector) ==
    CASE selector = 0 -> 4 [] selector = 1 -> 8 [] selector = 2 -> 12
      [] selector = 3 -> 32

ReadBitVarDone == pc = "bitvar" /\ result # NoResult

\* C12: read_bit_var reads a 2-bit selector and then 4, 8, 12 or 32 bits for
\* selector 0, 1, 2 or 3: it succeeds exactly when 2 + width bits are left,
\* then has moved the cursor by exactly 2 + width bits and returns the
\* little-endian value of the width bits.
C12_BitVarWidths ==
    ReadBitVarDone =>
        /\ result.ok <=> input.frame.cut = 0
        /\ result.ok =>
            /\ pos = msg_start + 2 + BitVarWidth(input.selector)
            /\ result.val = input.value
        /\ ~result.ok => result.err = "NotEnoughData"

\* A 32-bit value with the top bit set, read from the middle of a stream.
C12_Witness ==
    /\ ReadBitVarDone
    /\ result.ok
    /\ input.selector = 3
    /\ input.value = MaxU32
    /\ input.frame.lead > 0
    /\ input.frame.tail > 0

\* A 12-bit value read with bits following it.
C12_TwelveReached ==
    /\ ReadBitVarDone
    /\ result.ok
    /\ input.selector = 2
    /\ input.frame.tail > 0

\* The props an Enter entity starts from by precedence: the instance baseline
\* of the slot the message names, else the static baseline stored under the id
\* of its class, else none.
StartingPropsById(entity) ==
    LET slot == instance_baselines[input.base_line + 1] IN
    IF entity.entity_index \in DOMAIN slot THEN slot[entity.entity_index]
    ELSE IF entity.server_class.id \in DOMAIN static_baselines
         THEN static_baselines[entity.server_class.id]
         ELSE <<>>

EnterWithoutUpdate ==
    /\ ParsedEntities /\ result.ok
    /\ Len(input.entries) = 1
    /\ input.entries[1].pvs = "Enter"
    /\ input.entries[1].update = <<>>

\* C13: an Enter entry for entity e of class c under baseline slot b starts
\* from instance_baselines[b][e] when it exists, else from the static baseline
\* stored under c.id when one is stored under c.id, else from no props; with an
\* empty update these are the props of the entity.
C13_EnterPrecedence ==
    EnterWithoutUpdate =>
        /\ Len(result.val.entities) = 1
        /\ result.val.entities[1].props = StartingPropsById(result.val.entities[1])

\* C13 with the static baseline taken from under the position of the class in
\* server_classes, where one is stored under the id of the class.
C13_EnterByPosition ==
    EnterWithoutUpdate =>
        /\ Len(result.val.entities) = 1
        /\ result.val.entities[1].props = StartingProps(result.val.entities[1])

\* Each of the three sources is reached: an instance baseline, a static
\* baseline, no baseline.
C13_InstanceReached ==
    /\ EnterWithoutUpdate
    /\ result.val.entities[1].entity_index
          \in DOMAIN instance_baselines[input.base_line + 1]
    /\ result.val.entities[1].entity_index
          \notin DOMAIN instance_baselines[2 - input.base_line]

C13_StaticReached ==
    /\ EnterWithoutUpdate
    /\ result.val.entities[1].entity_index
          \notin DOMAIN instance_baselines[input.base_line + 1]
    /\ result.val.entities[1].server_class.id \in DOMAIN static_baselines

C13_EmptyReached ==
    /\ EnterWithoutUpdate
    /\ result.val.entities[1].entity_index
          \notin DOMAIN instance_baselines[input.base_line + 1]
    /\ result.val.entities[1].server_class.id \notin DOMAIN static_baselines
    /\ result.val.entities[1].props = <<>>

\* The entity id of the k-th entry of the parsed message.
EntityIdAt(k) == AsU32(result.val.entity_indices[k])

\* Whether the k-th entry of the parsed message appended an entity: Enter and
\* Preserve always, Leave and Delete for an entity the state knows.
Appends(k) ==
    \/ input.entries[k].pvs \in {"Enter", "Preserve"}
    \/ EntityIdAt(k) \in DOMAIN entity_classes

\* The position in entities of the entity the k-th entry appended.
PositionOf(k) == Cardinality({ j \in 1..k : Appends(j) })

\* The update list the k-th entry carried, decoded against a send table.
DecodedUpdateAt(k, data_table) ==
    LET table == send_tables[data_table].flattened_props
        indices == result.val.prop_indices[k] IN
    [j \in 1..Len(indices) |->
        SendProp(table[indices[j] + 1], input.entries[k].update[j].value)]

\* The id of the entity the first entry of the message names.
FirstEntityId == AsU32(NextIndex(-1, input.entries[1].diff))

\* C14: a Preserve entry for an entity id that entity_classes does not have
\* fails the whole parse with UnknownEntity of that id; otherwise it appends
\* exactly one entity with the recorded class, pvs = Preserve and exactly the
\* decoded update list as props, in wire order, no baseline merged in.
C14_Preserve ==
    /\ (/\ ParsedEntities /\ result.carved
        /\ input.entries # <<>>
        /\ input.entries[1].pvs = "Preserve"
        /\ FirstEntityId \notin DOMAIN entity_classes) =>
            /\ ~result.ok
            /\ result.err = "UnknownEntity"
            /\ result.val = FirstEntityId
    /\ (ParsedEntities /\ ~result.ok /\ result.err = "UnknownEntity") =>
            result.val \notin DOMAIN entity_classes
    /\ (ParsedEntities /\ result.ok) =>
            /\ Len(result.val.entities) = PositionOf(Len(input.entries))
            /\ \A k \in 1..Len(input.entries) :
                input.entries[k].pvs = "Preserve" =>
                    /\ EntityIdAt(k) \in DOMAIN entity_classes
                    /\ PositionOf(k) = PositionOf(k - 1) + 1
                    /\ result.val.entities[PositionOf(k)] =
                        PacketEntity(entity_classes[EntityIdAt(k)], EntityIdAt(k),
                                     DecodedUpdateAt(k, entity_classes[EntityIdAt(k)].data_table),
                                     FALSE, "Preserve", 0)

\* C14 happens: an entity that has an instance baseline in the slot of the
\* message is preserved with a one-prop update and carries that prop only.
C14_Witness ==
    /\ ParsedEntities /\ result.ok
    /\ Len(input.entries) = 1
    /\ input.entries[1].pvs = "Preserve"
    /\ FirstEntityId \in DOMAIN instance_baselines[input.base_line + 1]
    /\ Len(result.val.entities) = 1
    /\ Len(result.val.entities[1].props) = 1

\* A Preserve entry for an unknown entity comes second, after a known one.
C14_UnknownReached ==
    /\ ParsedEntities /\ ~result.ok
    /\ result.err = "UnknownEntity"
    /\ Len(input.entries) = 2
    /\ input.entries[1].pvs = "Preserve"
    /\ FirstEntityId \in DOMAIN entity_classes

\* A message of one Leave or Delete entry and nothing else in its body.
OneLeaveOrDelete ==
    /\ ParsedEntities /\ result.carved
    /\ Len(input.entries) = 1
    /\ input.entries[1].pvs \in {"Leave", "Delete"}
    /\ input.removed = <<>> /\ input.pad = 0 /\ input.frame.cut = 0

\* C15: a Leave or Delete entry reads nothing after its 2-bit pvs; for an entity
\* id in entity_classes one entity with the recorded class, that pvs and no props
\* is appended, for any other id nothing is appended and no error is raised.
C15_LeaveDelete ==
    /\ OneLeaveOrDelete =>
        /\ result.ok
        /\ result.consumed = Len(BitsBitVar(input.entries[1].diff)) + 2
                                + (IF input.delta.some THEN 1 ELSE 0)
        /\ result.val.entities =
              IF FirstEntityId \in DOMAIN entity_classes
              THEN << PacketEntity(entity_classes[FirstEntityId], FirstEntityId,
                                   <<>>, FALSE, input.entries[1].pvs, 0) >>
              ELSE <<>>
    /\ (ParsedEntities /\ result.ok) =>
        /\ Len(result.val.entities) = PositionOf(Len(input.entries))
        /\ \A k \in 1..Len(input.entries) :
            input.entries[k].pvs \in {"Leave", "Delete"} =>
                /\ result.val.prop_indices[k] = <<>>
                /\ EntityIdAt(k) \in DOMAIN entity_classes =>
                    result.val.entities[PositionOf(k)] =
                        PacketEntity(entity_classes[EntityIdAt(k)], EntityIdAt(k),
                                     <<>>, FALSE, input.entries[k].pvs, 0)

\* C15 happens: a Leave entry for an entity that has an instance baseline
\* appends that entity without props.
C15_Witness ==
    /\ OneLeaveOrDelete /\ result.ok
    /\ input.entries[1].pvs = "Leave"
    /\ FirstEntityId \in DOMAIN instance_baselines[input.base_line + 1]
    /\ Len(result.val.entities) = 1
    /\ result.val.entities[1].props = <<>>

\* A Delete entry for an unknown entity is passed over and the entry after it
\* is read.
C15_UnknownReached ==
    /\ ParsedEntities /\ result.ok
    /\ Len(input.entries) = 2
    /\ input.entries[1].pvs = "Delete"
    /\ FirstEntityId \notin DOMAIN entity_classes
    /\ Len(result.val.entities) = 1

\* A message of one Enter or Preserve entry whose update is read against a send
\* table: the class named by an Enter entry exists, the entity named by a
\* Preserve entry is known.
OneUpdate ==
    /\ ParsedEntities /\ result.carved
    /\ Len(input.entries) = 1
    /\ input.removed = <<>> /\ input.pad = 0 /\ input.frame.cut = 0
    /\ \/ /\ input.entries[1].pvs = "Enter"
          /\ input.entries[1].class_index < Len(server_classes)
       \/ /\ input.entries[1].pvs = "Preserve"
          /\ FirstEntityId \in DOMAIN entity_classes

\* The send table the update of that entry is read against.
UpdateTable ==
    send_tables[IF input.entries[1].pvs = "Enter"
                THEN server_classes[input.entries[1].class_index + 1].data_table
                ELSE entity_classes[FirstEntityId].data_table].flattened_props

\* index + diff + 1 in the integers, for an index below len; any sum of len or
\* more is given as len.
PlusDiff(index, diff, len) ==
    IF diff.top = 1 \/ diff.low >= len \/ index + diff.low + 1 >= len THEN len
    ELSE index + diff.low + 1

\* The running indices of an update in the integers, from index on, up to and
\* including the first that is len or more.
RECURSIVE RunningIndices(_, _, _)
RunningIndices(update, index, len) ==
    IF update = <<>> THEN <<>>
    ELSE LET next == PlusDiff(index, Head(update).diff, len) IN
         IF next >= len THEN <<next>>
         ELSE <<next>> \o RunningIndices(Tail(update), next, len)

\* The running indices of an update as 32-bit signed sums, up to and including
\* the first that is outside 0..len-1.
RECURSIVE WrappedIndices(_, _, _)
WrappedIndices(update, index, len) ==
    IF update = <<>> THEN <<>>
    ELSE LET next == NextIndex(index, Head(update).diff) IN
         IF next < 0 \/ next >= len THEN <<next>>
         ELSE <<next>> \o WrappedIndices(Tail(update), next, len)

\* The props of an update bound to the definitions at the given indices.
BoundProps(update, indices, table) ==
    [k \in 1..Len(indices) |-> SendProp(table[indices[k] + 1], update[k].value)]

\* C16: read_update, with the running index starting at -1 and advanced by
\* diff + 1 for every prop, returns one prop per 1-bit iteration bound to the
\* definition at the running index, and fails with PropIndexOutOfBounds
\* carrying the table length as soon as a running index is the table length
\* or more.
C16_ReadUpdate ==
    OneUpdate =>
        LET update == input.entries[1].update
            len == Len(UpdateTable)
            indices == RunningIndices(update, -1, len) IN
        IF indices # <<>> /\ indices[Len(indices)] >= len
        THEN /\ ~result.ok
             /\ result.err = "PropIndexOutOfBounds"
             /\ result.val.prop_count = len
        ELSE /\ result.ok
             /\ result.val.prop_indices[1] = indices
             /\ input.entries[1].pvs = "Preserve" =>
                    result.val.entities[1].props = BoundProps(update, indices, UpdateTable)

\* C16 with the running index as the 32-bit signed sum: a prop per iteration
\* bound to the definition at that index, PropIndexOutOfBounds with that index
\* and the table length as soon as it is outside the table, on either side.
C16_WrappedIndex ==
    OneUpdate =>
        LET update == input.entries[1].update
            len == Len(UpdateTable)
            indices == WrappedIndices(update, -1, len)
            last == indices[Len(indices)] IN
        IF indices # <<>> /\ (last < 0 \/ last >= len)
        THEN /\ ~result.ok
             /\ result.err = "PropIndexOutOfBounds"
             /\ result.val = [index |-> last, prop_count |-> len]
        ELSE /\ result.ok
             /\ result.val.prop_indices[1] = indices
             /\ \A k \in 1..Len(indices) : indices[k] \in 0..(len - 1)
             /\ input.entries[1].pvs = "Preserve" =>
                    result.val.entities[1].props = BoundProps(update, indices, UpdateTable)

\* An update runs past the two props of its table at index 2, and another
\* returns two props.
C16_OutOfBoundsReached ==
    /\ OneUpdate /\ ~result.ok
    /\ result.err = "PropIndexOutOfBounds"
    /\ result.val = [index |-> 2, prop_count |-> 2]

C16_TwoPropsReached ==
    /\ OneUpdate /\ result.ok
    /\ input.entries[1].pvs = "Preserve"
    /\ Len(result.val.entities[1].props) = 2
    /\ StrictlyIncreasing(result.val.prop_indices[1])

\* The bits a decoded event value took on the wire.
ValueWidth(value) ==
    CASE value.kind = "String"  -> 8 * (Len(value.v) + 1)
      [] value.kind = "Float"   -> 32
      [] value.kind = "Long"    -> 32
      [] value.kind = "Short"   -> 16
      [] value.kind = "Byte"    -> 8
      [] value.kind = "Boolean" -> 1
      [] value.kind = "Local"   -> 0

RECURSIVE SumWidths(_)
SumWidths(values) ==
    IF values = <<>> THEN 0 ELSE ValueWidth(Head(values)) + SumWidths(Tail(values))

\* C17: a successful GameEventMessage::parse holds one value per entry of the
\* definition it used, in definition order, each of the variant of its entry's
\* kind; the values took exactly their widths after the 9-bit type id: 1, 8, 16,
\* 32 and 32 bits for Boolean, Byte, Short, Long and Float, none for Local.
C17_ValuePerEntry ==
    (ParsedEvent /\ result.ok) =>
        /\ UsedDefinition # <<>>
        /\ LET entries == UsedDefinition[1].entries
               values == result.val.values IN
            /\ Len(values) = Len(entries)
            /\ \A i \in 1..Len(entries) :
                /\ values[i].kind = entries[i].kind
                /\ entries[i].kind = "Local" => values[i].v = 0
            /\ result.consumed = 9 + SumWidths(values)

\* C17 happens: Boolean, Local, Short read from 17 bits.
C17_Witness ==
    /\ ParsedEvent /\ result.ok
    /\ Len(result.val.values) = 3
    /\ result.val.values[1].kind = "Boolean" /\ result.val.values[1].v = TRUE
    /\ result.val.values[2].kind = "Local" /\ result.val.values[2].v = 0
    /\ result.val.values[3].kind = "Short" /\ result.val.values[3].v = 513
    /\ result.consumed = 26

\* String, Long, Float read from 88 bits.
C17_StringReached ==
    /\ ParsedEvent /\ result.ok
    /\ Len(result.val.values) = 3
    /\ result.val.values[1].kind = "String" /\ result.val.values[1].v = <<120, 121>>
    /\ result.val.values[2].kind = "Long"
    /\ result.val.values[2].v = [top |-> 1, low |-> 5]
    /\ result.val.values[3].kind = "Float" /\ result.val.values[3].v = U32(9)
    /\ result.consumed = 97

\* The definitions in hand: those installed and those a list read just returned.
DefinitionsRead ==
    { event_definitions[k] : k \in 1..Len(event_definitions) }
    \cup (IF pc = "install" /\ result # NoResult /\ result.ok
          THEN { result.val[k] : k \in 1..Len(result.val) } ELSE {})

\* C18: no definition read from a GameEventList has an entry of kind None, and
\* no GameEvent parse against such definitions fails with NoneValue.
C18_NoNoneEntry ==
    /\ \A d \in DefinitionsRead :
        \A i \in 1..Len(d.entries) : d.entries[i].kind # "None"
    /\ ParsedEvent => result.err # "NoneValue"

\* C18 happens: a definition of three entries was read up to its None
\* terminator and an event was then decoded against it.
C18_Witness ==
    /\ ParsedEvent /\ result.ok
    /\ UsedDefinition # <<>>
    /\ Len(UsedDefinition[1].entries) = 3
    /\ Len(result.val.values) = 3

\* The step-by-step parse has returned.
StepsReturned == pc = "steps" /\ frame.phase \in {"done", "failed"}

\* The step-by-step parse is past its carve.
StepsCarved == pc = "steps" /\ frame.phase # "none" /\ frame.carved

\* The entries of the entity loop started so far.
EntriesStarted == frame.updated_entries - frame.remaining

\* The step-by-step parse returns what PacketEntitiesMessage::parse returns in
\* one go: the same outcome, the same error and the same cursors.
StepsAgreeWithParse ==
    StepsReturned =>
        LET r == PacketEntitiesMessage_parse([bits |-> stream, pos |-> msg_start],
                                             entity_classes, instance_baselines) IN
        /\ r.ok = (frame.phase = "done")
        /\ r.err = frame.err
        /\ r.carved = frame.carved
        /\ r.s.pos = pos
        /\ frame.carved => r.data = frame.data

\* C19: PacketEntitiesMessage::parse returns on every input.  The entity loop
\* starts at most updated_entries entries; every pass of the prop loop and of
\* the trailer loop takes at least one bit of the carved body or ends the parse
\* with an error; the cursor of the body never passes its end, the parent
\* cursor rests at the end of the declared length whatever the body reads ask
\* for, and a pass that finds the body used up fails with NotEnoughData.
C19_Terminates ==
    /\ <>StepsReturned
    /\ [](StepsCarved =>
            /\ EntriesStarted \in 0..frame.updated_entries
            /\ frame.data.pos <= Len(frame.data.bits)
            /\ Len(frame.data.bits) = StepLength(input)
            /\ pos = msg_start + EntityHeaderBits(input) + StepLength(input))
    /\ [][(StepsCarved /\ frame.phase \in {"props", "trailer"}) =>
            \/ frame'.data.pos > frame.data.pos
            \/ frame'.phase = "failed"]_vars
    /\ [][(StepsCarved /\ frame.phase = "entities" /\ frame.remaining > 0) =>
            \/ frame'.data.pos > frame.data.pos
            \/ frame'.phase = "failed"]_vars
    /\ [][(/\ StepsCarved
            /\ \/ frame.phase \in {"props", "trailer"}
               \/ frame.phase = "entities" /\ frame.remaining > 0
            /\ BitsLeft(frame.data) = 0) =>
            /\ frame'.phase = "failed"
            /\ frame'.err = "NotEnoughData"]_vars

\* C19 happens: the header announces one entry more than the body holds and a
\* body cut short inside its last prop; the prop loop has run the body dry and
\* the parse has failed with NotEnoughData, the parent cursor at the end of
\* the declared length, bits of the stream still following.
C19_Witness ==
    /\ StepsReturned /\ frame.carved
    /\ frame.phase = "failed" /\ frame.err = "NotEnoughData"
    /\ frame.table # "none"
    /\ frame.index >= 0
    /\ input.less > 0
    /\ pos < Len(stream)
    /\ pos = msg_start + EntityHeaderBits(input) + StepLength(input)

\* The entity loop runs dry on an entry the header announces and the body does
\* not hold; a trailer of two ids is read to its end.
C19_EntriesDryReached ==
    /\ StepsReturned /\ frame.carved
    /\ frame.phase = "failed" /\ frame.err = "NotEnoughData"
    /\ input.more = 1 /\ input.less = 0
    /\ frame.remaining = 1

C19_TrailerReached ==
    /\ StepsReturned /\ frame.phase = "done"
    /\ Len(input.removed) = 2 /\ input.delta.some
    /\ frame.data.pos = Len(frame.data.bits)

\* C20: users and user_states have the same user ids and, for every user id,
\* the same name, after any sequence of userinfo entries and name changes.
C20_UsersAgree ==
    pc = "analyser" =>
        /\ DOMAIN users = DOMAIN user_states
        /\ \A id \in DOMAIN users : users[id].name = user_states[id].name

\* The key sets alone: users and user_states always hold the same user ids.
C20_SameKeys == pc = "analyser" => DOMAIN users = DOMAIN user_states

\* A step taken where no two users of either table share a name leaves the
\* names of the two tables in agreement if they were.
C20_DistinctNamesAgree ==
    [][(/\ pc = "analyser"
        /\ \A i, j \in DOMAIN users :
              (users[i].name = users[j].name
                  \/ user_states[i].name = user_states[j].name) => i = j
        /\ \A id \in DOMAIN users : users[id].name = user_states[id].name) =>
            \A id \in DOMAIN users' : users'[id].name = user_states'[id].name]_vars

\* Two users of one name, renamed one in each table.
C20_SplitReached ==
    /\ pc = "analyser"
    /\ DOMAIN users = {1, 2}
    /\ users[1].name = "b" /\ users[2].name = "a"
    /\ user_states[1].name = "a" /\ user_states[2].name = "b"

\* The ticks of the messages handled so far, in arrival order.
HandledTicks == [i \in 1..Len(input) |-> input[i].tick]

\* The first tick of a sequence that is not 0, and 0 if there is none.
FirstNonZero(ticks) ==
    IF \A i \in 1..Len(ticks) : ticks[i] = 0 THEN 0
    ELSE ticks[CHOOSE i \in 1..Len(ticks) :
                  /\ ticks[i] # 0
                  /\ \A j \in 1..(i - 1) : ticks[j] = 0]

\* C21: start_tick is the tick of the first handled message whose tick is not
\* 0, whatever the type of that message and whatever comes after it, and is 0
\* while no such message was handled; so it is the tick of the first handled
\* message only if that tick is not 0 or every handled tick is 0.
C21_StartTickIsFirstNonZero ==
    pc = "match" =>
        /\ start_tick = FirstNonZero(HandledTicks)
        /\ (Len(input) > 0 /\ start_tick = input[1].tick) =>
              \/ input[1].tick # 0
              \/ \A i \in 1..Len(input) : input[i].tick = 0

\* A first message at tick 0, then a message that is neither a game event nor
\* a user message at tick 2, then a message at tick 1: start_tick is 2.
C21_LateStartReached ==
    /\ pc = "match"
    /\ Len(input) = 3
    /\ input[1].tick = 0
    /\ input[2].tick = 2 /\ input[2].message.type = "NetTick"
    /\ input[3].tick = 1
    /\ start_tick = 2

\* The handled messages that carry a game event of the given kind.
HandledEvents(variant) ==
    SelectSeq(input, LAMBDA h :
        h.message.type = "GameEvent" /\ h.message.event.variant = variant)

\* The handled round wins whose reason is not 6, the time limit.
HandledRoundWins ==
    SelectSeq(HandledEvents("TeamPlayRoundWin"), LAMBDA h :
        h.message.event.win_reason # 6)

\* C22: rounds holds, in arrival order, one Round per handled TeamPlayRoundWin
\* event whose win_reason is not 6, with the tick of its message as end_tick,
\* and nothing else; deaths holds one Death per handled PlayerDeath event in
\* arrival order; so no event of another kind changes rounds or deaths.
C22_RoundsAndDeathsFollowEvents ==
    pc = "match" =>
        /\ Len(rounds) = Len(HandledRoundWins)
        /\ \A i \in 1..Len(rounds) :
              /\ rounds[i].end_tick = HandledRoundWins[i].tick
              /\ rounds[i].length = HandledRoundWins[i].message.event.round_time
              /\ rounds[i].winner = Team_new(HandledRoundWins[i].message.event.team)
        /\ Len(deaths) = Len(HandledEvents("PlayerDeath"))
        /\ \A i \in 1..Len(deaths) :
              /\ deaths[i].tick = HandledEvents("PlayerDeath")[i].tick
              /\ deaths[i].weapon = HandledEvents("PlayerDeath")[i].message.event.weapon

\* A round that ran out of time at tick 1, a round won at tick 2 and a death
\* at tick 1 were handled: one round, ending at tick 2, and one death.
C22_TimeLimitSkippedReached ==
    /\ pc = "match"
    /\ Len(input) = 3
    /\ input[1].tick = 1 /\ input[1].message.type = "GameEvent"
    /\ input[1].message.event.variant = "TeamPlayRoundWin"
    /\ input[1].message.event.win_reason = 6
    /\ input[2].tick = 2 /\ input[2].message.type = "GameEvent"
    /\ input[2].message.event.variant = "TeamPlayRoundWin"
    /\ input[2].message.event.win_reason = 1
    /\ input[3].tick = 1 /\ input[3].message.type = "GameEvent"
    /\ input[3].message.event.variant = "PlayerDeath"
    /\ Len(rounds) = 1 /\ rounds[1].end_tick = 2 /\ rounds[1].winner = "Red"
    /\ Len(deaths) = 1 /\ deaths[1].tick = 1

\* The step handles a message, and the message is a PlayerSpawn event.
SpawnHandled ==
    /\ pc \in {"match", "spawns"}
    /\ Len(input') = Len(input) + 1
    /\ input'[Len(input')].message.type = "GameEvent"
    /\ input'[Len(input')].message.event.variant = "PlayerSpawn"

\* What the step that handles the PlayerSpawn `event` does for the user of its
\* low 8 bits and the class slot `slot`: one Spawn more in user_spawns; for a
\* registered user the counter of the slot one higher and every other counter
\* and every other user as before; for another user, user_states as before.
SpawnCounted(user, slot) ==
    /\ Len(user_spawns') = Len(user_spawns) + 1
    /\ user_spawns'[Len(user_spawns')].user = user
    /\ user_spawns'[Len(user_spawns')].class = slot
    /\ \A i \in 1..Len(user_spawns) : user_spawns'[i] = user_spawns[i]
    /\ IF user \in DOMAIN user_states
       THEN /\ DOMAIN user_states' = DOMAIN user_states
            /\ \A u \in DOMAIN user_states \ {user} :
                  user_states'[u] = user_states[u]
            /\ user_states'[user].classes[slot] =
                  user_states[user].classes[slot] + 1
            /\ \A c \in (0..9) \ {slot} :
                  user_states'[user].classes[c] = user_states[user].classes[c]
       ELSE user_states' = user_states

\* C23: every handled PlayerSpawn event appends one Spawn to user_spawns,
\* registered user or not; counters and team change only for a user id (the
\* low 8 bits of the event's) that is in user_states, and then the counter of
\* exactly one class slot in 0..9 goes up by 1, however many spawns came
\* before: it never overflows or wraps.
C23_EverySpawnCounted ==
    [][SpawnHandled =>
          SpawnCounted(input'[Len(input')].message.event.user_id % 256,
                       IF input'[Len(input')].message.event.class \in 1..9
                       THEN input'[Len(input')].message.event.class ELSE 0)]_vars

\* The player is registered and has spawned 255 times as a scout since: the
\* counter is at the largest value a u8 holds.
C23_CounterFullReached ==
    /\ pc = "spawns"
    /\ 1 \in DOMAIN user_states
    /\ user_states[1].classes[1] = 255
    /\ Len(user_spawns) = 255

\* The counter of the player went round: 256 spawns as a scout, counter 0.
C23_CounterWrappedReached ==
    /\ pc = "spawns"
    /\ 1 \in DOMAIN user_states
    /\ Len(user_spawns) = 256
    /\ \A i \in 1..256 : user_spawns[i].user = 1 /\ user_spawns[i].class = 1
    /\ user_states[1].classes[1] = 0

\* The handler panicked on the 256th spawn.
C23_PanicReached == pc = "panicked" /\ Len(input) = 256

\* The step handles a message of the match.
MessageHandled == pc = "match" /\ Len(input') = Len(input) + 1

\* The step leaves the event logs as they were.
LogsKept ==
    /\ deaths' = deaths
    /\ rounds' = rounds
    /\ user_spawns' = user_spawns

\* The step changes nothing of a user table but names.
OnlyNamesChange(before, after) ==
    /\ DOMAIN after = DOMAIN before
    /\ \A id \in DOMAIN before :
          [after[id] EXCEPT !.name = before[id].name] = before[id]

\* What the step that handles `message` at `tick` does to the chat, the user
\* tables and the event logs.
UserMessageEffect(message, tick) ==
    IF message.type = "UserMessage" /\ message.message.variant = "SayText2"
    THEN IF message.message.kind = "NameChange"
         THEN /\ chat' = chat
              /\ OnlyNamesChange(users, users')
              /\ OnlyNamesChange(user_states, user_states')
              /\ LogsKept
         ELSE /\ Len(chat') = Len(chat) + 1
              /\ \A i \in 1..Len(chat) : chat'[i] = chat[i]
              /\ chat'[Len(chat')].tick = tick
              /\ chat'[Len(chat')].kind = message.message.kind
              /\ chat'[Len(chat')].text = message.message.text
              /\ users' = users
              /\ user_states' = user_states
              /\ LogsKept
    ELSE IF message.type = "GameEvent"
         THEN chat' = chat /\ users' = users
         ELSE /\ chat' = chat
              /\ users' = users
              /\ user_states' = user_states
              /\ LogsKept

\* C24: a handled SayText2 message of kind NameChange is not appended to chat
\* and changes, of chat, users, user_states, deaths, rounds and user_spawns,
\* only the names of users; every other SayText2 message appends one chat
\* entry, with the tick of the message, after those already there and leaves
\* users and user_states as they were; a user message that is no SayText2 and
\* a message that is neither a game event nor a user message leave all six as
\* they were.
C24_UserMessageEffects ==
    [][MessageHandled =>
          UserMessageEffect(input'[Len(input')].message,
                            input'[Len(input')].tick)]_vars

\* The player "a" was registered; then a chat line at tick 1, a name change
\* from "a" to "b" at tick 2 and a user message that is no SayText2 were
\* handled: one chat entry, of tick 1, and both tables name the player "b".
C24_ChatAndRenameReached ==
    /\ pc = "match"
    /\ Len(input) = 3
    /\ input[1].message.type = "UserMessage"
    /\ input[1].message.message.variant = "SayText2"
    /\ input[1].message.message.kind = "ChatAll" /\ input[1].tick = 1
    /\ input[2].message.type = "UserMessage"
    /\ input[2].message.message.variant = "SayText2"
    /\ input[2].message.message.kind = "NameChange" /\ input[2].tick = 2
    /\ input[3].message.type = "UserMessage"
    /\ input[3].message.message.variant = "Text"
    /\ Len(chat) = 1 /\ chat[1].tick = 1 /\ chat[1].text = "c"
    /\ 1 \in DOMAIN users /\ users[1].name = "b" /\ user_states[1].name = "b"

====
